---- MODULE Spec2Model ----
(***************************************************************************)
(* Model of the Global Liquidity & Credit Index tracker.                   *)
(*                                                                         *)
(* The module holds several sub-models, each with its own specification:   *)
(*   SpecGLCI     GLCIComputer.compute (glci.py) and its persistence       *)
(*   SpecRegime   detect_regime (transforms.py) and the regime timeline    *)
(*                built by export_glci / get_regime_history                *)
(*   SpecRaw      DataStorage raw operations (storage.py)                  *)
(*   SpecWrite    the file writes of storage.py / export_to_json.py as a   *)
(*                writer running concurrently with a reader                *)
(*   SpecFeat     FeatureMatrixBuilder.build_feature_matrix (factors.py)   *)
(*   SpecAlign    FeatureMatrixBuilder._align_features and align_series    *)
(*   SpecChoose   DynamicFactorModel._choose_method (dynamic_factor.py)    *)
(*   SpecFactor   the fit, fallback and get_result of a pillar's factor    *)
(*   SpecRisk     RiskMetricsComputer._compute_asset_metrics               *)
(*   SpecRoll     RiskMetricsComputer._compute_rolling_sharpe              *)
(*   SpecExport   export_all (export_to_json.py), run twice                *)
(*   SpecFreshness  export_glci_freshness and get_data_freshness           *)
(*   SpecJson     the numbers export_to_json.py serializes                 *)
(*   SpecCache    the cache of a FeatureMatrixBuilder over several builds  *)
(*   SpecSign     the orientation of a component from raw series to GLCI   *)
(*   SpecCurated  DataStorage.save_curated over several saves              *)
(*   SpecTree     export_all over changing inputs, with snapshots          *)
(* Numbers that are floats in the program are exact rationals or scaled    *)
(* integers here.                                                          *)
(***************************************************************************)
EXTENDS Integers, Sequences, FiniteSets, TLC

VARIABLES
    \* ---- GLCIComputer.compute ----
    cfg_weight,        \* configured pillar weight (pillar_config["weight"]), in tenths
    cfg_sign,          \* configured pillar sign (pillar_config["sign"])
    storage_root,      \* curated root of the DataStorage given to GLCIComputer
    curated,           \* curated files: <<root, name>> -> "absent", or written by a "previous" or the "current" run
    curated_at_start,  \* the curated files when compute was entered
    pc,                \* position of compute
    idx,               \* index into pillar_names of the pillar loop
    save_output,       \* compute's save_output argument
    pillar_weights,    \* the local pillar_weights dict of compute
    pillar_factors,    \* the local pillar_factors dict: pillar -> orientation of its factor
    composite,         \* coefficient and orientation of each pillar in the weighted sum
    stages,            \* the stages compute has been through, in order
    result,            \* the GLCIResult returned (NoResult while there is none)
    \* ---- detect_regime and the regime timeline ----
    glci_df,           \* the GLCI table: rows of date, zscore and (once classified) regime
    periods,           \* the regime timeline built from it
    rg_pc,             \* "zscored", "classified", then "exported" | "served" | "skipped"
    \* ---- DataStorage, raw tier ----
    raw,               \* raw files: <<source, file stem>> -> Absent or File(rows)
    raw_mtime,         \* st_mtime of each raw file: the time of its last write
    raw_clock,         \* the time, counted in writes
    raw_writers,       \* the operations that have written each raw file
    last_op,           \* the last raw operation called, with its arguments
    prev_file,         \* rows and mtime, before that call, of the file it addressed
    \* ---- file writes, with a concurrent reader ----
    disk,              \* path -> what is at that path: NoFile, or a version and how much of it is written
    committed,         \* path -> what was at that path when the last complete write of it ended
    w_call,            \* the write operation in progress ("none" between calls)
    w_queue,           \* the paths that operation has still to write, in order
    w_open,            \* whether the head of w_queue is open for writing
    w_calls,           \* the number of write operations started
    seen,              \* what the reader got from its last read
    \* ---- FeatureMatrixBuilder.build_feature_matrix ----
    ft_cfg,            \* the pillar of the call: its sign and its components
    ft_raw,            \* series id -> the values the data source returns for it
    ft_cache,          \* self._data_cache
    ft_idx,            \* index of the component the loop is at
    ft_df,             \* the local df of the loop body, as the transforms get it
    ft_step,           \* how the last pass of the loop body ended
    ft_features,       \* the local features dict, by feature name
    ft_metadata,       \* the local feature_metadata list
    \* ---- FeatureMatrixBuilder._align_features ----
    al_features,       \* the features dict handed to _align_features: pairs of name and table, in order
    al_aligned,        \* the table it returns
    al_pc,             \* "built", then "aligned"
    \* ---- DynamicFactorModel._choose_method ----
    ch_X,              \* the matrix given to _choose_method, by the numbers of its rows of each kind
    ch_has,            \* HAS_STATSMODELS_DFM and HAS_SKLEARN of the process
    ch_use,            \* the method returned ("none" before the call)
    \* ---- factor extraction of _compute_pillar_factor ----
    fm_env,            \* the method asked for, the dependencies, X, and what each fit does with X
    fm_model,          \* the DynamicFactorModel at hand: its method, min_observations, _method_used
    fm_attempts,       \* the fits entered so far (_fit_dfm, _fit_pca_shrunk, _fit_pca), in order
    fm_pc,             \* "start", "fitted" | "fallback", "result" | "dropped"
    fm_result,         \* the FactorModelResult of get_result (NoFactorResult before)
    \* ---- RiskMetricsComputer._compute_asset_metrics ----
    rk_prices,      \* price_df: the dates of its rows, sorted
    rk_glci,        \* glci_df: rows of a date and a regime code, sorted by date
    rk_rf,          \* rf_df: None, or rows of a date, sorted by date
    rk_merged,      \* merged, after dropna(subset=["return"])
    rk_by_regime,   \* sharpe_by_regime, return_by_regime, volatility_by_regime
    rk_pc,          \* position in _compute_asset_metrics
    \* ---- RiskMetricsComputer._compute_rolling_sharpe ----
    rs_excess,         \* df["excess_return"], one float per return row, in date order
    rs_runs,           \* the number of runs of equal values it was built from
    rs_result,         \* the list returned: the rows for which a point is emitted
    rs_pc,             \* "building", then "done"
    \* ---- export_all (export_to_json.py) and GLCIComputer.get_data_freshness ----
    ex_curated,        \* the curated tree: glci, glci_pillars, risk_metrics ("absent" | "empty" | "rows"), weights file
    ex_raw,            \* the raw tree: for each configured series, whether its file exists and the dates of its rows
    ex_fetch,          \* what fetcher.fetch_series does for each component: raises, or the dates of the frame
    ex_now,            \* the clock, in days
    ex_out,            \* the output tree: for each path, <<>> or <<the payload of its index.json>>
    ex_first,          \* the output tree as the first run of export_all left it
    ex_run,            \* the number of the run of export_all
    ex_pc,             \* position in export_all
    ex_api,            \* what get_data_freshness returned: <<>> before the call, else <<the dict>>
    \* ---- the numbers the exporter serializes (export_to_json.py) ----
    js_src,            \* the source values of the latest rows: series, glci and risk table
    js_out,            \* the payload fields written so far, by endpoint
    js_pc,             \* the exporter functions that have run
    \* ---- the cache of one FeatureMatrixBuilder over several builds (factors.py) ----
    bc_data,           \* series id -> what the fetcher does for it: raises, or a table
    bc_cache,          \* self._cache
    bc_invocations,    \* series id -> the number of calls of fetcher.fetch_series
    bc_returned,       \* series id -> the table the caller holds from the last build
    bc_builds,         \* the number of build_pillar_matrix calls made
    \* ---- the orientation of a component on its way into the GLCI (factors.py, glci.py) ----
    sg_cfg,            \* the configured signs: of each pillar and of its component
    sg_features,       \* pillar -> the feature value built from a raw value of +1
    sg_loading,        \* pillar -> the sign of the average loading the fit came out with
    sg_factors,        \* pillar -> the value of the pillar factor, for a feature of +1 ... -1
    sg_inversions,     \* pillar -> the number of negations applied since the raw series
    sg_pc,             \* the step the run is at
    \* ---- the curated tier of DataStorage over several saves (storage.py) ----
    cu_files,          \* name -> the parquet file and the <name>_meta.json file of a category
    cu_last,           \* name -> the arguments of the most recent save_curated call, if any
    cu_clock,          \* the number of save_curated calls made; the utcnow of the next one
    \* ---- export_all over changing inputs, with snapshots (export_to_json.py) ----
    tr_curated,        \* the curated tables the exporter reads
    tr_raw,            \* the raw file of each configured series
    tr_out,            \* the files under <output>/api
    tr_snap,           \* date -> the snapshot directory of that date, if any
    tr_now,            \* the date
    tr_runs,           \* the number of export_all runs completed
    tr_last            \* the last step: "start", "export", "snapshot" or "change"

glci_vars == <<cfg_weight, cfg_sign, storage_root, curated, curated_at_start, pc, idx,
               save_output, pillar_weights, pillar_factors, composite, stages, result>>

regime_vars == <<glci_df, periods, rg_pc>>

raw_vars == <<raw, raw_mtime, raw_clock, raw_writers, last_op, prev_file>>

write_vars == <<disk, committed, w_call, w_queue, w_open, w_calls, seen>>

feat_vars == <<ft_cfg, ft_raw, ft_cache, ft_idx, ft_df, ft_step, ft_features, ft_metadata>>

align_vars == <<al_features, al_aligned, al_pc>>

choose_vars == <<ch_X, ch_has, ch_use>>

factor_vars == <<fm_env, fm_model, fm_attempts, fm_pc, fm_result>>

risk_vars == <<rk_prices, rk_glci, rk_rf, rk_merged, rk_by_regime, rk_pc>>

roll_vars == <<rs_excess, rs_runs, rs_result, rs_pc>>

export_vars == <<ex_curated, ex_raw, ex_fetch, ex_now, ex_out, ex_first, ex_run, ex_pc, ex_api>>

json_vars == <<js_src, js_out, js_pc>>

cache_vars == <<bc_data, bc_cache, bc_invocations, bc_returned, bc_builds>>

sign_vars == <<sg_cfg, sg_features, sg_loading, sg_factors, sg_inversions, sg_pc>>

curated_vars == <<cu_files, cu_last, cu_clock>>

tree_vars == <<tr_curated, tr_raw, tr_out, tr_snap, tr_now, tr_runs, tr_last>>

vars == <<glci_vars, regime_vars, raw_vars, write_vars, feat_vars, align_vars, choose_vars,
          factor_vars, risk_vars, roll_vars, export_vars, json_vars, cache_vars, sign_vars,
          curated_vars, tree_vars>>

not_glci == <<regime_vars, raw_vars, write_vars, feat_vars, align_vars, choose_vars, factor_vars,
              risk_vars, roll_vars, export_vars, json_vars, cache_vars, sign_vars, curated_vars,
              tree_vars>>

not_regime == <<glci_vars, raw_vars, write_vars, feat_vars, align_vars, choose_vars, factor_vars,
                risk_vars, roll_vars, export_vars, json_vars, cache_vars, sign_vars,
                curated_vars, tree_vars>>

not_raw == <<glci_vars, regime_vars, write_vars, feat_vars, align_vars, choose_vars, factor_vars,
             risk_vars, roll_vars, export_vars, json_vars, cache_vars, sign_vars, curated_vars,
             tree_vars>>

not_write == <<glci_vars, regime_vars, raw_vars, feat_vars, align_vars, choose_vars, factor_vars,
               risk_vars, roll_vars, export_vars, json_vars, cache_vars, sign_vars, curated_vars,
               tree_vars>>

not_feat == <<glci_vars, regime_vars, raw_vars, write_vars, align_vars, choose_vars, factor_vars,
              risk_vars, roll_vars, export_vars, json_vars, cache_vars, sign_vars, curated_vars,
              tree_vars>>

not_align == <<glci_vars, regime_vars, raw_vars, write_vars, feat_vars, choose_vars, factor_vars,
               risk_vars, roll_vars, export_vars, json_vars, cache_vars, sign_vars, curated_vars,
               tree_vars>>

not_choose == <<glci_vars, regime_vars, raw_vars, write_vars, feat_vars, align_vars, factor_vars,
                risk_vars, roll_vars, export_vars, json_vars, cache_vars, sign_vars,
                curated_vars, tree_vars>>

not_factor == <<glci_vars, regime_vars, raw_vars, write_vars, feat_vars, align_vars, choose_vars,
                risk_vars, roll_vars, export_vars, json_vars, cache_vars, sign_vars,
                curated_vars, tree_vars>>

not_risk == <<glci_vars, regime_vars, raw_vars, write_vars, feat_vars, align_vars, choose_vars,
              factor_vars, roll_vars, export_vars, json_vars, cache_vars, sign_vars,
              curated_vars, tree_vars>>

not_roll == <<glci_vars, regime_vars, raw_vars, write_vars, feat_vars, align_vars, choose_vars,
              factor_vars, risk_vars, export_vars, json_vars, cache_vars, sign_vars,
              curated_vars, tree_vars>>

not_export == <<glci_vars, regime_vars, raw_vars, write_vars, feat_vars, align_vars, choose_vars,
                factor_vars, risk_vars, roll_vars, json_vars, cache_vars, sign_vars,
                curated_vars, tree_vars>>

not_json == <<glci_vars, regime_vars, raw_vars, write_vars, feat_vars, align_vars, choose_vars,
              factor_vars, risk_vars, roll_vars, export_vars, cache_vars, sign_vars,
              curated_vars, tree_vars>>

not_cache == <<glci_vars, regime_vars, raw_vars, write_vars, feat_vars, align_vars, choose_vars,
               factor_vars, risk_vars, roll_vars, export_vars, json_vars, sign_vars,
               curated_vars, tree_vars>>

not_sign == <<glci_vars, regime_vars, raw_vars, write_vars, feat_vars, align_vars, choose_vars,
              factor_vars, risk_vars, roll_vars, export_vars, json_vars, cache_vars,
              curated_vars, tree_vars>>

not_curated == <<glci_vars, regime_vars, raw_vars, write_vars, feat_vars, align_vars,
                 choose_vars, factor_vars, risk_vars, roll_vars, export_vars, json_vars,
                 cache_vars, sign_vars, tree_vars>>

not_tree == <<glci_vars, regime_vars, raw_vars, write_vars, feat_vars, align_vars, choose_vars,
              factor_vars, risk_vars, roll_vars, export_vars, json_vars, cache_vars, sign_vars,
              curated_vars>>

(***************************************************************************)
(* Exact rationals <<numerator, denominator>> in lowest terms.             *)
(***************************************************************************)
RECURSIVE GCD(_, _)
GCD(a, b) == IF b = 0 THEN a ELSE GCD(b, a % b)

Rat(n, d) == IF n = 0 THEN <<0, 1>> ELSE <<n \div GCD(n, d), d \div GCD(n, d)>>

RatAdd(x, y) == Rat(x[1] * y[2] + y[1] * x[2], x[2] * y[2])

RatDiv(x, y) == Rat(x[1] * y[2], x[2] * y[1])

RECURSIVE RatSum(_, _)
RatSum(f, S) ==
    IF S = {} THEN <<0, 1>>
    ELSE LET k == CHOOSE k \in S : TRUE IN RatAdd(f[k], RatSum(f, S \ {k}))

RECURSIVE IntSum(_, _)
IntSum(f, S) ==
    IF S = {} THEN 0
    ELSE LET k == CHOOSE k \in S : TRUE IN f[k] + IntSum(f, S \ {k})

(***************************************************************************)
(* GLCIComputer.compute                                                    *)
(***************************************************************************)
MaxWeight == 4

pillar_names == <<"liquidity", "credit", "stress">>

Pillars == {pillar_names[i] : i \in 1..Len(pillar_names)}

DefaultRoot == "CURATED_DATA_PATH"

Roots == {DefaultRoot, "custom"}

Artifacts == {"glci", "glci_pillars", "glci_weights.json", "glci_meta.json"}

NoResult == [status |-> "none"]

EmptyDict == [k \in {} |-> 0]

\* get_pillar_weights: the configured weights normalised to sum to 1
get_pillar_weights(weight) ==
    LET total == IntSum(weight, DOMAIN weight)
    IN  IF total > 0 THEN [k \in DOMAIN weight |-> Rat(weight[k], total)]
        ELSE [k \in DOMAIN weight |-> Rat(weight[k], 1)]

\* a redistribution that drops the missing pillars and does not divide by what is left
RedistributeWeights_NoDivide(weights, factors) ==
    [k \in DOMAIN weights \cap DOMAIN factors |-> weights[k]]

\* compute, "Adjust weights if some pillars are missing"
RedistributeWeights(weights, factors) ==
    IF Cardinality(DOMAIN factors) < Len(pillar_names)
    THEN LET available_weights == [k \in DOMAIN weights \cap DOMAIN factors |-> weights[k]]
             total_available == RatSum(available_weights, DOMAIN available_weights)
         IN  [k \in DOMAIN available_weights |-> RatDiv(available_weights[k], total_available)]
    ELSE weights

\* compute, the set called missing
MissingPillars(factors) == Pillars \ DOMAIN factors

\* compute, step 2: the factor of a pillar with a negative sign is inverted
ApplyPillarSigns(factors, signs) ==
    [p \in DOMAIN factors |-> IF signs[p] < 0 THEN -factors[p] ELSE factors[p]]

\* combine_factors: the weights are normalised again, and the weighted sum runs over the
\* columns of factor_dict that have a weight; a pillar without a factor is no term of it
combine_factors(factor_dict, weights) ==
    LET total == RatSum(weights, DOMAIN weights)
        w == [k \in DOMAIN weights |-> RatDiv(weights[k], total)]
    IN  [p \in Pillars |->
            IF p \in DOMAIN factor_dict /\ p \in DOMAIN w
            THEN [coef |-> w[p], orient |-> factor_dict[p]]
            ELSE [coef |-> <<0, 1>>, orient |-> 0]]

\* the keys of the metadata dict compute builds
MetadataKeys ==
    {"computed_at", "start_date", "end_date", "n_observations", "target_frequency",
     "factor_method", "normalize", "pillar_stats", "current_regime"}

\* save_curated: the table, and <name>_meta.json when metadata is given and not empty
save_curated(files, root, name, has_meta, run) ==
    LET body == [files EXCEPT ![<<root, name>>] = run]
    IN  IF has_meta THEN [body EXCEPT ![<<root, name \o "_meta.json">>] = run] ELSE body

\* a direct write of a JSON file under CURATED_DATA_PATH / "indices"
write_indices_json(files, name, run) == [files EXCEPT ![<<DefaultRoot, name>>] = run]

\* what a completed earlier compute(save_output=True) leaves behind
SavedBefore(root) ==
    [f \in Roots \X Artifacts |->
        IF \/ f[1] = root /\ f[2] \in {"glci", "glci_pillars", "glci_meta.json"}
           \/ f[1] = DefaultRoot /\ f[2] \in {"glci_weights.json", "glci_meta.json"}
        THEN "previous" ELSE "absent"]

ThisRun == "current"

\* the GLCI sub-model at rest, for the specifications of the other sub-models
GLCIIdle ==
    /\ cfg_weight = [p \in Pillars |-> 1]
    /\ cfg_sign = [p \in Pillars |-> 1]
    /\ storage_root = DefaultRoot
    /\ curated = [f \in Roots \X Artifacts |-> "absent"]
    /\ curated_at_start = curated
    /\ pc = "idle"
    /\ idx = 0
    /\ save_output = FALSE
    /\ pillar_weights = [k \in {} |-> 0]
    /\ pillar_factors = [k \in {} |-> 0]
    /\ composite = [k \in {} |-> 0]
    /\ stages = <<>>
    /\ result = NoResult

GLCIInit ==
    /\ cfg_weight \in [Pillars -> 1..MaxWeight]
    /\ cfg_sign \in [Pillars -> {-1, 1}]
    /\ storage_root \in Roots
    /\ curated \in {[f \in Roots \X Artifacts |-> "absent"], SavedBefore(storage_root)}
    /\ curated_at_start = curated
    /\ pc = "idle"
    /\ idx = 0
    /\ save_output = FALSE
    /\ pillar_weights = EmptyDict
    /\ pillar_factors = EmptyDict
    /\ composite = EmptyDict
    /\ stages = <<>>
    /\ result = NoResult

\* compute is entered: the configuration is read
ComputeStart ==
    /\ pc = "idle"
    /\ \E s \in BOOLEAN : save_output' = s
    /\ pillar_weights' = get_pillar_weights(cfg_weight)
    /\ pillar_factors' = EmptyDict
    /\ curated_at_start' = curated
    /\ idx' = 1
    /\ pc' = "extract"
    /\ stages' = <<>>
    /\ UNCHANGED <<cfg_weight, cfg_sign, storage_root, curated, composite, result>>
    /\ UNCHANGED not_glci

\* _compute_pillar_factor for pillar p: build_pillar_matrix fetches the components
\* and builds the features, then the model is fitted; outcome is "extract" for a
\* factor and "failed" for an exception of any of these steps
pillar_stages(p, outcome) == <<<<"fetch", p>>, <<"features", p>>, <<outcome, p>>>>

\* the sign stage of each pillar that has a factor, in the order of the dict
sign_stages(factors) ==
    LET survivors == SelectSeq(pillar_names, LAMBDA p : p \in DOMAIN factors)
    IN  [i \in 1..Len(survivors) |-> <<"sign", survivors[i]>>]

\* a compute that combines the factors before the pillar signs are applied
compute_stages_CombineFirst(factors) ==
    <<<<"weights", "">>, <<"combine", "">>>> \o sign_stages(factors) \o
    <<<<"rescale", "">>, <<"regime", "">>, <<"momentum", "">>, <<"emit", "">>>>

\* Step 1b to Step 6 of compute, after the pillar loop
compute_stages(factors) ==
    <<<<"weights", "">>>> \o sign_stages(factors) \o
    <<<<"combine", "">>, <<"rescale", "">>, <<"regime", "">>, <<"momentum", "">>,
      <<"emit", "">>>>

\* one turn of the pillar loop in which _compute_pillar_factor returns a factor
ExtractFactorOk ==
    /\ pc = "extract"
    /\ idx <= Len(pillar_names)
    /\ pillar_factors' =
         [p \in DOMAIN pillar_factors \cup {pillar_names[idx]} |->
            IF p = pillar_names[idx] THEN 1 ELSE pillar_factors[p]]
    /\ stages' = stages \o pillar_stages(pillar_names[idx], "extract")
    /\ idx' = idx + 1
    /\ UNCHANGED <<cfg_weight, cfg_sign, storage_root, curated, curated_at_start, pc,
                   save_output, pillar_weights, composite, result>>
    /\ UNCHANGED not_glci

\* one turn of the pillar loop in which _compute_pillar_factor raises: caught, continue
ExtractFactorFails ==
    /\ pc = "extract"
    /\ idx <= Len(pillar_names)
    /\ stages' = stages \o pillar_stages(pillar_names[idx], "failed")
    /\ idx' = idx + 1
    /\ UNCHANGED <<cfg_weight, cfg_sign, storage_root, curated, curated_at_start, pc,
                   save_output, pillar_weights, pillar_factors, composite, result>>
    /\ UNCHANGED not_glci

\* after the loop: no pillar factor at all raises ValueError
NoPillarFactors ==
    /\ pc = "extract"
    /\ idx > Len(pillar_names)
    /\ DOMAIN pillar_factors = {}
    /\ pc' = "error"
    /\ stages' = Append(stages, <<"raise", "ValueError">>)
    /\ UNCHANGED <<cfg_weight, cfg_sign, storage_root, curated, curated_at_start, idx,
                   save_output, pillar_weights, pillar_factors, composite, result>>
    /\ UNCHANGED not_glci

\* after the loop, with at least one factor: weights, signs, combination, rescaling,
\* regimes, momentum and the result, up to "Step 7: Save if requested"
BuildResultSteps ==
    /\ pc = "extract"
    /\ idx > Len(pillar_names)
    /\ LET weights == RedistributeWeights(pillar_weights, pillar_factors)
           signed == ApplyPillarSigns(pillar_factors, cfg_sign)
       IN  /\ pillar_weights' = weights
           /\ pillar_factors' = signed
           /\ composite' = combine_factors(signed, weights)
           /\ result' = [status |-> "built",
                         pillar_weights |-> weights,
                         pillar_signs |-> cfg_sign,
                         metadata |-> MetadataKeys]
    /\ stages' = stages \o compute_stages(pillar_factors)
    /\ pc' = IF save_output THEN "save_glci" ELSE "done"
    /\ UNCHANGED <<cfg_weight, cfg_sign, storage_root, curated, curated_at_start, idx,
                   save_output>>
    /\ UNCHANGED not_glci

\* a compute without the test "if not pillar_factors: raise"
BuildResult_Unchecked == BuildResultSteps

BuildResult ==
    /\ DOMAIN pillar_factors # {}
    /\ BuildResultSteps

\* _save_results: storage.save_curated(result.glci, "indices", "glci", metadata=...)
SaveGlci ==
    /\ pc = "save_glci"
    /\ curated' = save_curated(curated, storage_root, "glci", TRUE, ThisRun)
    /\ pc' = "save_pillars"
    /\ stages' = Append(stages, <<"save", "glci">>)
    /\ UNCHANGED <<cfg_weight, cfg_sign, storage_root, curated_at_start, idx, save_output,
                   pillar_weights, pillar_factors, composite, result>>
    /\ UNCHANGED not_glci

\* _save_results: storage.save_curated(result.pillars, "indices", "glci_pillars")
SavePillars ==
    /\ pc = "save_pillars"
    /\ curated' = save_curated(curated, storage_root, "glci_pillars", FALSE, ThisRun)
    /\ pc' = "save_weights"
    /\ stages' = Append(stages, <<"save", "glci_pillars">>)
    /\ UNCHANGED <<cfg_weight, cfg_sign, storage_root, curated_at_start, idx, save_output,
                   pillar_weights, pillar_factors, composite, result>>
    /\ UNCHANGED not_glci

\* _save_results: glci_weights.json under CURATED_DATA_PATH
SaveWeights ==
    /\ pc = "save_weights"
    /\ curated' = write_indices_json(curated, "glci_weights.json", ThisRun)
    /\ pc' = "save_meta"
    /\ stages' = Append(stages, <<"save", "glci_weights.json">>)
    /\ UNCHANGED <<cfg_weight, cfg_sign, storage_root, curated_at_start, idx, save_output,
                   pillar_weights, pillar_factors, composite, result>>
    /\ UNCHANGED not_glci

\* _save_results: glci_meta.json under CURATED_DATA_PATH; compute returns
SaveMeta ==
    /\ pc = "save_meta"
    /\ curated' = write_indices_json(curated, "glci_meta.json", ThisRun)
    /\ pc' = "done"
    /\ stages' = Append(stages, <<"save", "glci_meta.json">>)
    /\ UNCHANGED <<cfg_weight, cfg_sign, storage_root, curated_at_start, idx, save_output,
                   pillar_weights, pillar_factors, composite, result>>
    /\ UNCHANGED not_glci

GLCINext ==
    \/ ComputeStart
    \/ ExtractFactorOk
    \/ ExtractFactorFails
    \/ NoPillarFactors
    \/ BuildResult
    \/ SaveGlci
    \/ SavePillars
    \/ SaveWeights
    \/ SaveMeta

(***************************************************************************)
(* detect_regime and the regime timeline                                   *)
(* A float is <<v>>, v an integer number of tenths, or NaN, <<>>. A date   *)
(* is a pandas                                                             *)
(* Timestamp, here the number of hours since 2020-01-01 00:00; a formatted *)
(* date is <<year, month, day>>.                                           *)
(***************************************************************************)
MaxRows == 5

NaN == <<>>

Float(v) == <<v>>

MaxClassifyRows == 3

\* z-scores on both sides of each threshold, on the thresholds, and a missing one
ZValues == {Float(v) : v \in {-12, -10, -9, 0, 10, 11, 20}} \cup {NaN}

\* z-scores of all three regimes, and a missing one
TimelineZValues == {Float(v) : v \in {-12, -9, 0, 11, 20}} \cup {NaN}

RegimeLow == -10

RegimeHigh == 10

\* Python's < and > on floats: every comparison with NaN is false
Lt(a, b) == a # NaN /\ b # NaN /\ a[1] < b[1]

Gt(a, b) == a # NaN /\ b # NaN /\ a[1] > b[1]

\* a classification with <= and >= in place of < and >
detect_regime_row_NotStrict(zscore, low, high) ==
    IF zscore = NaN THEN 0
    ELSE IF zscore[1] <= low[1] THEN -1
    ELSE IF zscore[1] >= high[1] THEN 1
    ELSE 0

\* detect_regime: regime = 0, then -1 where zscore < low, then 1 where zscore > high
detect_regime_row(zscore, low, high) ==
    LET r0 == 0
        r1 == IF Lt(zscore, low) THEN -1 ELSE r0
        r2 == IF Gt(zscore, high) THEN 1 ELSE r1
    IN  r2

detect_regime(df, low, high) ==
    [i \in 1..Len(df) |->
        [date |-> df[i].date, zscore |-> df[i].zscore,
         regime |-> detect_regime_row(df[i].zscore, low, high)]]

REGIME_LABELS(code) ==
    CASE code = -1 -> "tight"
      [] code = 0 -> "neutral"
      [] code = 1 -> "loose"

\* the days of the months of 2020
MonthDays == <<31, 29, 31, 30, 31, 30, 31, 31, 30, 31, 30, 31>>

RECURSIVE MonthDay(_, _)
MonthDay(m, d) == IF d <= MonthDays[m] THEN <<2020, m, d>> ELSE MonthDay(m + 1, d - MonthDays[m])

\* fmt_date: value.strftime("%Y-%m-%d") of a Timestamp
fmt_date(value) == MonthDay(1, (value \div 24) + 1)

\* str(date)[:10] of a Timestamp
str10(date) == MonthDay(1, (date \div 24) + 1)

FormatDate(who, date) == IF who = "export" THEN fmt_date(date) ELSE str10(date)

\* df.sort_values("date"): a stable insertion sort
RECURSIVE InsertByDate(_, _)
InsertByDate(sorted, row) ==
    IF sorted = <<>> THEN <<row>>
    ELSE IF sorted[Len(sorted)].date <= row.date THEN Append(sorted, row)
    ELSE Append(InsertByDate(SubSeq(sorted, 1, Len(sorted) - 1), row), sorted[Len(sorted)])

RECURSIVE SortByDate(_)
SortByDate(df) ==
    IF df = <<>> THEN <<>>
    ELSE InsertByDate(SortByDate(SubSeq(df, 1, Len(df) - 1)), df[Len(df)])

\* the loop's test: regime != current_regime
RegimeChanged(regime, current_regime) == regime # current_regime

\* a period that ends at the start of the run it closes
ClosedPeriod_EndsAtStart(who, current_regime, period_start, date) ==
    [regime |-> current_regime,
     start |-> FormatDate(who, period_start),
     end |-> FormatDate(who, period_start)]

\* the period appended when the regime changes: it ends at the date of the changing row
ClosedPeriod(who, current_regime, period_start, date) ==
    [regime |-> current_regime,
     start |-> FormatDate(who, period_start),
     end |-> FormatDate(who, date)]

\* the loop over the rows of regimes_df
RECURSIVE ScanPeriods(_, _, _, _, _, _)
ScanPeriods(who, rows, i, current_regime, period_start, acc) ==
    IF i > Len(rows)
    THEN [periods |-> acc, current_regime |-> current_regime, period_start |-> period_start]
    ELSE LET regime == REGIME_LABELS(rows[i].regime)
             date == rows[i].date
         IN  IF RegimeChanged(regime, current_regime)
             THEN ScanPeriods(who, rows, i + 1, regime, date,
                              IF current_regime # "None"
                              THEN Append(acc, ClosedPeriod(who, current_regime, period_start, date))
                              ELSE acc)
             ELSE ScanPeriods(who, rows, i + 1, current_regime, period_start, acc)

\* a timeline without its final period
FinalPeriod_Dropped(who, rows, scan) == scan.periods

\* after the loop: the final period ends at the last date of the table
FinalPeriod(who, rows, scan) ==
    IF scan.current_regime # "None"
    THEN Append(scan.periods,
                [regime |-> scan.current_regime,
                 start |-> FormatDate(who, scan.period_start),
                 end |-> FormatDate(who, rows[Len(rows)].date)])
    ELSE scan.periods

BuildPeriods(who, rows) ==
    FinalPeriod(who, rows, ScanPeriods(who, rows, 1, "None", "None", <<>>))

\* a table compute can produce: one row per day from 2020-01-01, one z-score per row
GLCITable(n, zs) ==
    [i \in 1..n |-> [date |-> 24 * (i - 1), zscore |-> zs[i]]]

RegimeInit ==
    /\ \E n \in 0..MaxRows : \E zs \in [1..n -> TimelineZValues] : glci_df = GLCITable(n, zs)
    /\ periods = <<>>
    /\ rg_pc = "zscored"

ClassifyInit ==
    /\ \E n \in 0..MaxClassifyRows : \E zs \in [1..n -> ZValues] : glci_df = GLCITable(n, zs)
    /\ periods = <<>>
    /\ rg_pc = "zscored"

RegimeIdle ==
    /\ glci_df = <<>>
    /\ periods = <<>>
    /\ rg_pc = "zscored"

\* compute, step 4: glci_df = detect_regime(glci_df, thresholds=(-1.0, 1.0))
DetectRegime ==
    /\ rg_pc = "zscored"
    /\ glci_df' = detect_regime(glci_df, Float(RegimeLow), Float(RegimeHigh))
    /\ rg_pc' = "classified"
    /\ UNCHANGED periods
    /\ UNCHANGED not_regime

\* export_glci on the saved table: nothing is written for an empty table
ExportRegimeHistory ==
    /\ rg_pc = "classified"
    /\ IF glci_df = <<>>
       THEN /\ rg_pc' = "skipped"
            /\ UNCHANGED periods
       ELSE /\ periods' = BuildPeriods("export", SortByDate(glci_df))
            /\ rg_pc' = "exported"
    /\ UNCHANGED glci_df
    /\ UNCHANGED not_regime

\* get_regime_history on result.regimes
ServeRegimeHistory ==
    /\ rg_pc = "classified"
    /\ periods' = BuildPeriods("serve", glci_df)
    /\ rg_pc' = "served"
    /\ UNCHANGED glci_df
    /\ UNCHANGED not_regime

RegimeNext ==
    \/ DetectRegime
    \/ ExportRegimeHistory
    \/ ServeRegimeHistory

(***************************************************************************)
(* DataStorage, raw tier                                                   *)
(* A series id is a sequence of characters. A row is a date and the        *)
(* fetched_at stamp of the fetch that produced it.                         *)
(***************************************************************************)
MaxWrites == 3

MaxDelta == 2

MaxDate == 2

MaxFetch == 2

\* no file (what load_raw reports as None), and a file with its rows
Absent == [exists |-> FALSE, rows |-> <<>>]

File(rows) == [exists |-> TRUE, rows |-> rows]

Sources == {"fred"}

SeriesIds == {<<"a", ":", "b">>, <<"a", "/", "b">>, <<"c">>}

RawRows == [date : 1..MaxDate, fetched_at : 1..MaxFetch]

\* series_id.replace(":", "_").replace("/", "_")
clean_id(series_id) ==
    [i \in 1..Len(series_id) |->
        IF series_id[i] = ":" \/ series_id[i] = "/" THEN "_" ELSE series_id[i]]

FilePath(source, series_id) == <<source, clean_id(series_id)>>

RawPaths == {FilePath(src, sid) : src \in Sources, sid \in SeriesIds}

\* save_raw: df.to_parquet(file_path) replaces the file
save_raw(files, df, source, series_id) ==
    [files EXCEPT ![FilePath(source, series_id)] = File(df)]

\* load_raw: the rows of the file, or None (Absent) when there is no file
load_raw(files, source, series_id) == files[FilePath(source, series_id)]

\* drop_duplicates(subset=["date"], keep="last"): a row stays when no later row has its date
RECURSIVE drop_duplicates_last(_)
drop_duplicates_last(rows) ==
    IF rows = <<>> THEN <<>>
    ELSE LET head == rows[1]
             rest == SubSeq(rows, 2, Len(rows))
         IN  IF \E j \in 1..Len(rest) : rest[j].date = head.date
             THEN drop_duplicates_last(rest)
             ELSE <<head>> \o drop_duplicates_last(rest)

\* append_raw: what is handed to save_raw
append_raw_frame(existing, df) ==
    IF existing.exists
    THEN SortByDate(drop_duplicates_last(existing.rows \o df))
    ELSE df

\* get_date_range(source, series_id): (min, max) of the dates, None without rows
get_date_range(files, source, series_id) ==
    LET df == load_raw(files, source, series_id)
        dates == {df.rows[i].date : i \in 1..Len(df.rows)}
    IN  IF df.exists /\ dates # {}
        THEN <<CHOOSE d \in dates : \A e \in dates : d <= e,
               CHOOSE d \in dates : \A e \in dates : e <= d>>
        ELSE <<>>

\* list_raw_series(source): one entry per file, with its stem and modification time
list_raw_series(files, mtime, source) ==
    {[source |-> p[1], series_id |-> p[2], modified |-> mtime[p]] :
        p \in {q \in RawPaths : q[1] = source /\ files[q].exists}}

RawFrames == UNION {[1..n -> RawRows] : n \in 0..MaxDelta}

NoOp == [op |-> "none"]

RawInit ==
    /\ raw = [p \in RawPaths |-> Absent]
    /\ raw_mtime = [p \in RawPaths |-> 0]
    /\ raw_clock = 0
    /\ raw_writers = [p \in RawPaths |-> {}]
    /\ last_op = NoOp
    /\ prev_file = [file |-> Absent, mtime |-> 0]

RawIdle == RawInit

\* the bookkeeping of one write of the file of (source, series_id)
RawWritten(op, df, source, series_id) ==
    LET p == FilePath(source, series_id)
    IN  /\ raw_clock' = raw_clock + 1
        /\ raw_mtime' = [raw_mtime EXCEPT ![p] = raw_clock + 1]
        /\ raw_writers' = [raw_writers EXCEPT ![p] = @ \cup {op}]
        /\ last_op' = [op |-> op, source |-> source, series_id |-> series_id, df |-> df]
        /\ prev_file' = [file |-> raw[p], mtime |-> raw_mtime[p]]

\* DataStorage.save_raw(df, source, series_id)
SaveRaw ==
    /\ raw_clock < MaxWrites
    /\ \E df \in RawFrames, source \in Sources, series_id \in SeriesIds :
         /\ raw' = save_raw(raw, df, source, series_id)
         /\ RawWritten("save_raw", df, source, series_id)
    /\ UNCHANGED not_raw

\* DataStorage.append_raw(df, source, series_id)
AppendRaw ==
    /\ raw_clock < MaxWrites
    /\ \E df \in RawFrames, source \in Sources, series_id \in SeriesIds :
         /\ raw' = save_raw(raw, append_raw_frame(load_raw(raw, source, series_id), df),
                            source, series_id)
         /\ RawWritten("append_raw", df, source, series_id)
    /\ UNCHANGED not_raw

RawNext ==
    \/ SaveRaw
    \/ AppendRaw

(***************************************************************************)
(* File writes, with a concurrent reader                                   *)
(* df.to_parquet(file_path) and open(path, "w") + json.dump are handed the *)
(* final path: opening it for writing creates it or empties it, the        *)
(* content then arrives in pieces, and the file is complete at the close.  *)
(* A path is <<root, directory, stem, extension>>; the content of a file   *)
(* is the number of the call that wrote it and the pieces written so far.  *)
(***************************************************************************)
MaxCalls == 2

FileChunks == 2

NoFile == [exists |-> FALSE, version |-> 0, chunks |-> 0]

Content(version, chunks) == [exists |-> TRUE, version |-> version, chunks |-> chunks]

\* what pd.read_parquet / json.load can parse: a file all of whose pieces are there
Complete(f) == f.exists /\ f.chunks = FileChunks

ParquetPath(root, dir, stem) == <<root, dir, stem, "parquet">>

JsonPath(root, dir, stem) == <<root, dir, stem, "json">>

\* save_raw: raw_path / source / f"{clean_id}.parquet"
save_raw_files(source, series_id) == <<ParquetPath("raw", source, clean_id(series_id))>>

\* save_curated: f"{name}.parquet", then f"{name}_meta.json" if metadata
save_curated_files(category, name, has_meta) ==
    <<ParquetPath("curated", category, <<name>>)>>
        \o (IF has_meta THEN <<JsonPath("curated", category, <<name, "_meta">>)>> ELSE <<>>)

\* _save_results: glci with its metadata, glci_pillars, glci_weights.json, glci_meta.json
save_results_files ==
    save_curated_files("indices", "glci", TRUE)
        \o save_curated_files("indices", "glci_pillars", FALSE)
        \o << JsonPath("curated", "indices", <<"glci_weights">>),
              JsonPath("curated", "indices", <<"glci", "_meta">>) >>

\* export_glci: output_dir / "api" / "glci" / "index.json" and .../ "latest" / "index.json"
ApiPaths == {JsonPath("api", "glci", <<"index">>), JsonPath("api", "glci/latest", <<"index">>)}

CuratedNames == {"glci", "glci_pillars"}

CuratedParquets == {ParquetPath("curated", "indices", <<name>>) : name \in CuratedNames}

CuratedMetas == {JsonPath("curated", "indices", <<name, "_meta">>) : name \in CuratedNames}

WritePaths ==
    {ParquetPath("raw", "fred", <<"c">>)} \cup CuratedParquets \cup CuratedMetas
        \cup {JsonPath("curated", "indices", <<"glci_weights">>)} \cup ApiPaths

NothingSeen == [op |-> "none", path |-> <<>>, file |-> NoFile, listing |-> {}]

WriteInit ==
    /\ disk = [p \in WritePaths |-> NoFile]
    /\ committed = [p \in WritePaths |-> NoFile]
    /\ w_call = "none"
    /\ w_queue = <<>>
    /\ w_open = FALSE
    /\ w_calls = 0
    /\ seen = NothingSeen

WriteIdle == WriteInit

\* the single writer enters a write operation that will write these files, in order
StartCall(op, files) ==
    /\ w_call = "none"
    /\ w_calls < MaxCalls
    /\ w_call' = op
    /\ w_queue' = files
    /\ w_calls' = w_calls + 1
    /\ UNCHANGED <<disk, committed, w_open, seen>>
    /\ UNCHANGED not_write

CallSaveRaw == StartCall("save_raw", save_raw_files("fred", <<"c">>))

CallSaveCurated ==
    \E name \in CuratedNames, has_meta \in BOOLEAN :
        StartCall("save_curated", save_curated_files("indices", name, has_meta))

CallSaveResults == StartCall("_save_results", save_results_files)

CallWriteJson == \E p \in ApiPaths : StartCall("write_json", <<p>>)

\* to_parquet(file_path) / open(path, "w"): the final path now holds an empty file
OpenForWrite ==
    /\ w_call # "none" /\ w_queue # <<>> /\ ~w_open
    /\ disk' = [disk EXCEPT ![Head(w_queue)] = Content(w_calls, 0)]
    /\ w_open' = TRUE
    /\ UNCHANGED <<committed, w_call, w_queue, w_calls, seen>>
    /\ UNCHANGED not_write

\* one more piece of the content reaches the file
WriteChunk ==
    /\ w_open
    /\ disk[Head(w_queue)].chunks < FileChunks
    /\ disk' = [disk EXCEPT ![Head(w_queue)].chunks = @ + 1]
    /\ UNCHANGED <<committed, w_call, w_queue, w_open, w_calls, seen>>
    /\ UNCHANGED not_write

\* the file is closed with all its content: the write of this path is over
CloseFile ==
    /\ w_open
    /\ disk[Head(w_queue)].chunks = FileChunks
    /\ committed' = [committed EXCEPT ![Head(w_queue)] = disk[Head(w_queue)]]
    /\ w_open' = FALSE
    /\ w_queue' = Tail(w_queue)
    /\ UNCHANGED <<disk, w_call, w_calls, seen>>
    /\ UNCHANGED not_write

\* the write operation returns
EndCall ==
    /\ w_call # "none" /\ w_queue = <<>> /\ ~w_open
    /\ w_call' = "none"
    /\ UNCHANGED <<disk, committed, w_queue, w_open, w_calls, seen>>
    /\ UNCHANGED not_write

\* a read of one path: what is at the path at that instant (None when nothing is)
ReadFile(op, p) ==
    /\ seen' = [op |-> op, path |-> p, file |-> disk[p], listing |-> {}]
    /\ UNCHANGED <<disk, committed, w_call, w_queue, w_open, w_calls>>
    /\ UNCHANGED not_write

\* DataStorage.load_curated(category, name)
LoadCurated == \E p \in CuratedParquets : ReadFile("load_curated", p)

\* DataStorage.load_curated_metadata(category, name)
LoadCuratedMetadata == \E p \in CuratedMetas : ReadFile("load_curated_metadata", p)

\* DataStorage.list_curated(category): an entry for each *.parquet there, whatever its state
ListCurated ==
    /\ seen' = [op |-> "list_curated", path |-> <<>>, file |-> NoFile,
                listing |-> {[path |-> p, file |-> disk[p]] :
                                p \in {q \in CuratedParquets : disk[q].exists}}]
    /\ UNCHANGED <<disk, committed, w_call, w_queue, w_open, w_calls>>
    /\ UNCHANGED not_write

WriteNext ==
    \/ CallSaveRaw
    \/ CallSaveCurated
    \/ CallSaveResults
    \/ CallWriteJson
    \/ OpenForWrite
    \/ WriteChunk
    \/ CloseFile
    \/ EndCall
    \/ LoadCurated
    \/ LoadCuratedMetadata
    \/ ListCurated

(***************************************************************************)
(* FeatureMatrixBuilder.build_feature_matrix                               *)
(* A series is a sequence of rows of a period of the target frequency and  *)
(* a float value. What a transform returns is kept as the term of its      *)
(* calls on its input, so two features are equal only when the same        *)
(* transform was given the same values.                                    *)
(***************************************************************************)
MaxComponents == 2

feat_pillar_names == <<"liquidity", "stress">>

Signs == {1, -1}

FeatSeries == {"s1", "s2"}

FeatTransforms == {"level", "zscore", "growth", "gap", "impulse", "hp_gap"}

\* the transform lists of a component: one transform (one of the six, or a name the
\* builder does not know), or two of them
TransformLists ==
    {<<t>> : t \in FeatTransforms \cup {"other"}}
        \cup {<<"zscore", "growth">>, <<"growth", "impulse">>}

Row(period, value) == [date |-> period, value |-> value]

\* what fetcher.fetch_series does for a series: it raises, or it returns a table
FetchRaises == [ok |-> FALSE, rows |-> <<>>]

Fetched(rows) == [ok |-> TRUE, rows |-> rows]

RawChoices ==
    [ s1 |-> { FetchRaises,
               Fetched(<<>>),
               Fetched(<< Row(1, Float(20)), Row(1, Float(-10)), Row(2, NaN), Row(3, Float(30)) >>) },
      s2 |-> { Fetched(<< Row(1, Float(10)), Row(2, Float(-20)), Row(2, NaN) >>) } ]

\* _fetch_series_cached: the cache after the call (a fetch that raises stores nothing)
cache_after_fetch(cache, source_data, series_id) ==
    IF series_id \in DOMAIN cache \/ ~source_data[series_id].ok
    THEN cache
    ELSE [k \in DOMAIN cache \cup {series_id} |->
            IF k = series_id THEN source_data[series_id].rows ELSE cache[k]]

\* _fetch_series_cached: the copy of the cached table it returns
fetch_series_cached(cache, source_data, series_id) ==
    cache_after_fetch(cache, source_data, series_id)[series_id]

\* resample(freq).last() of one period: its last value that is not NaN, NaN when none
LastValid(rows, period) ==
    LET at == {i \in 1..Len(rows) : rows[i].date = period /\ rows[i].value # NaN}
    IN  IF at = {} THEN NaN
        ELSE rows[CHOOSE i \in at : \A j \in at : j <= i].value

\* resample_to_frequency(df, target_freq, "last"): one row per period, by period, dropna()
RECURSIVE ResampleFrom(_, _, _)
ResampleFrom(rows, period, last_period) ==
    IF period > last_period THEN <<>>
    ELSE (IF LastValid(rows, period) = NaN THEN <<>>
          ELSE <<Row(period, LastValid(rows, period))>>)
         \o ResampleFrom(rows, period + 1, last_period)

resample_to_frequency(rows) ==
    LET dates == {rows[i].date : i \in 1..Len(rows)}
    IN  IF dates = {} THEN <<>>
        ELSE ResampleFrom(rows, CHOOSE d \in dates : \A e \in dates : d <= e,
                                CHOOSE d \in dates : \A e \in dates : e <= d)

Negative(value) == IF value = NaN THEN NaN ELSE Float(0 - value[1])

apply_sign_flip_Never(df, expected_sign) == df

\* apply_sign_flip(df, "value", expected_sign): a copy, negated if expected_sign < 0
apply_sign_flip(df, expected_sign) ==
    IF expected_sign < 0
    THEN [i \in 1..Len(df) |-> Row(df[i].date, Negative(df[i].value))]
    ELSE df

Call(fn, arg) == [fn |-> fn, arg |-> arg]

\* the feature_values of a transform of df
feature_values(transform, df) ==
    CASE transform = "level"   -> Call("standardize_series", df)
      [] transform = "zscore"  -> Call("compute_zscore", df)
      [] transform = "growth"  -> Call("standardize_series", Call("compute_growth_rate", df))
      [] transform = "gap"     -> Call("standardize_series", Call("compute_rolling_gap", df))
      [] transform = "impulse" -> Call("standardize_series", Call("compute_credit_impulse", df))
      [] transform = "hp_gap"  -> Call("standardize_series", Call("compute_hp_filter_gap", df))

feature_name(series_id, transform) == <<series_id, transform>>

\* whether the transform loop stores a feature for this transform; enough holds the
\* transforms whose output has more than 10 values that are not NaN
Stored(transform, enough) ==
    /\ transform \in FeatTransforms
    /\ transform \in {"impulse", "hp_gap"} => transform \in enough

SetItem(dict, key, value) ==
    [k \in DOMAIN dict \cup {key} |-> IF k = key THEN value ELSE dict[k]]

\* the transform loop of one component: all_features after it
RECURSIVE FeaturesAfter(_, _, _, _, _)
FeaturesAfter(all_features, comp, transforms, df, enough) ==
    IF transforms = <<>> THEN all_features
    ELSE FeaturesAfter(
            IF Stored(Head(transforms), enough)
            THEN SetItem(all_features, feature_name(comp.series, Head(transforms)),
                         [date |-> [i \in 1..Len(df) |-> df[i].date],
                          values |-> feature_values(Head(transforms), df)])
            ELSE all_features,
            comp, Tail(transforms), df, enough)

\* FeatureMetadata(series_id, pillar, transform, sign), its other fields left out
FeatureMetadata(series_id, pillar, transform, sign) ==
    [series_id |-> series_id, pillar |-> pillar, transform |-> transform, sign |-> sign]

\* the transform loop of one component: all_metadata after it
RECURSIVE MetadataAfter(_, _, _, _, _)
MetadataAfter(all_metadata, comp, transforms, effective_sign, enough) ==
    IF transforms = <<>> THEN all_metadata
    ELSE MetadataAfter(
            IF Stored(Head(transforms), enough)
            THEN Append(all_metadata,
                        FeatureMetadata(comp.series, feat_pillar_names[comp.pillar],
                                        Head(transforms), effective_sign))
            ELSE all_metadata,
            comp, Tail(transforms), effective_sign, enough)

\* series_sign = comp.get("sign", 1) * pillar_sign
series_sign(cfg, comp) == comp.sign * cfg.pillar_sign[comp.pillar]

FeatComponents ==
    [pillar : 1..Len(feat_pillar_names), series : FeatSeries, sign : Signs,
     transform : TransformLists]

\* the components of the index, pillar after pillar
ComponentLists ==
    {cs \in UNION {[1..n -> FeatComponents] : n \in 0..MaxComponents} :
        \A i, j \in 1..Len(cs) : i < j => cs[i].pillar <= cs[j].pillar}

FeatLocals ==
    /\ ft_cache = EmptyDict
    /\ ft_idx = 1
    /\ ft_df = <<>>
    /\ ft_step = "none"
    /\ ft_features = EmptyDict
    /\ ft_metadata = <<>>

FeatInit ==
    /\ \E signs \in [1..Len(feat_pillar_names) -> Signs], cs \in ComponentLists :
          ft_cfg = [pillar_sign |-> signs, components |-> cs]
    /\ \E r1 \in RawChoices.s1, r2 \in RawChoices.s2 : ft_raw = [s1 |-> r1, s2 |-> r2]
    /\ FeatLocals

FeatIdle ==
    /\ ft_cfg = [pillar_sign |-> [i \in 1..Len(feat_pillar_names) |-> 1], components |-> <<>>]
    /\ ft_raw = [s1 |-> FetchRaises, s2 |-> FetchRaises]
    /\ FeatLocals

InLoop == ft_step \notin {"raised", "returned"} /\ ft_idx <= Len(ft_cfg.components)

\* a pass of the loop body: _fetch_series_cached raises, continue
FetchFails ==
    /\ InLoop
    /\ LET comp == ft_cfg.components[ft_idx]
       IN  /\ comp.series \notin DOMAIN ft_cache
           /\ ~ft_raw[comp.series].ok
    /\ ft_idx' = ft_idx + 1
    /\ ft_step' = "fetch_failed"
    /\ UNCHANGED <<ft_cfg, ft_raw, ft_cache, ft_df, ft_features, ft_metadata>>
    /\ UNCHANGED not_feat

\* a pass of the loop body: df.empty, continue
NoData ==
    /\ InLoop
    /\ LET comp == ft_cfg.components[ft_idx]
       IN  /\ comp.series \in DOMAIN cache_after_fetch(ft_cache, ft_raw, comp.series)
           /\ fetch_series_cached(ft_cache, ft_raw, comp.series) = <<>>
           /\ ft_cache' = cache_after_fetch(ft_cache, ft_raw, comp.series)
           /\ ft_df' = <<>>
    /\ ft_idx' = ft_idx + 1
    /\ ft_step' = "no_data"
    /\ UNCHANGED <<ft_cfg, ft_raw, ft_features, ft_metadata>>
    /\ UNCHANGED not_feat

\* a pass of the loop body: fetch, resample, flip if series_sign < 0, then the transforms
BuildFeatures ==
    /\ InLoop
    /\ LET comp == ft_cfg.components[ft_idx]
           sign == series_sign(ft_cfg, comp)
       IN  /\ comp.series \in DOMAIN cache_after_fetch(ft_cache, ft_raw, comp.series)
           /\ fetch_series_cached(ft_cache, ft_raw, comp.series) # <<>>
           /\ LET resampled ==
                      resample_to_frequency(fetch_series_cached(ft_cache, ft_raw, comp.series))
                  df == IF sign < 0 THEN apply_sign_flip(resampled, sign) ELSE resampled
                  effective_sign == IF sign < 0 THEN 1 ELSE sign
              IN  \E enough \in SUBSET {"impulse", "hp_gap"} :
                     /\ ft_cache' = cache_after_fetch(ft_cache, ft_raw, comp.series)
                     /\ ft_df' = df
                     /\ ft_features' =
                            FeaturesAfter(ft_features, comp, comp.transform, df, enough)
                     /\ ft_metadata' =
                            MetadataAfter(ft_metadata, comp, comp.transform, effective_sign,
                                          enough)
    /\ ft_idx' = ft_idx + 1
    /\ ft_step' = "built"
    /\ UNCHANGED <<ft_cfg, ft_raw>>
    /\ UNCHANGED not_feat

\* after the loops: "No features could be built from configuration"
NoFeatures ==
    /\ ft_step \notin {"raised", "returned"} /\ ft_idx > Len(ft_cfg.components)
    /\ DOMAIN ft_features = {}
    /\ ft_step' = "raised"
    /\ UNCHANGED <<ft_cfg, ft_raw, ft_cache, ft_idx, ft_df, ft_features, ft_metadata>>
    /\ UNCHANGED not_feat

\* after the loops: return aligned, all_metadata
ReturnMatrix ==
    /\ ft_step \notin {"raised", "returned"} /\ ft_idx > Len(ft_cfg.components)
    /\ DOMAIN ft_features # {}
    /\ ft_step' = "returned"
    /\ UNCHANGED <<ft_cfg, ft_raw, ft_cache, ft_idx, ft_df, ft_features, ft_metadata>>
    /\ UNCHANGED not_feat

FeatNext ==
    \/ FetchFails
    \/ NoData
    \/ BuildFeatures
    \/ NoFeatures
    \/ ReturnMatrix

(***************************************************************************)
(* FeatureMatrixBuilder._align_features and align_series                   *)
(* A table is its columns (names, in order), its index (dates, in order)   *)
(* and, for each column, its values along the index. The value observed    *)
(* for a feature at date d is Float(d), so a filled value tells the row it *)
(* was taken from.                                                         *)
(***************************************************************************)
MaxGridRows == 16

MaxWarmUp == 2

FfillLimit == 13

BfillLimit == 4

EmptyTable == [columns |-> <<>>, index |-> <<>>, data |-> EmptyDict]

\* DataFrame.empty: no column or no row
IsEmptyTable(t) == t.columns = <<>> \/ t.index = <<>>

RECURSIVE SortedDates(_)
SortedDates(dates) ==
    IF dates = {} THEN <<>>
    ELSE LET first == CHOOSE d \in dates : \A e \in dates : d <= e
         IN  <<first>> \o SortedDates(dates \ {first})

\* the value of a table of rows at a date, NaN where it has no row for it
ValueAt(rows, date) ==
    IF \E i \in 1..Len(rows) : rows[i].date = date
    THEN rows[CHOOSE i \in 1..Len(rows) : rows[i].date = date].value
    ELSE NaN

\* df.set_index(date_col)[[value_col]] with its column named name
AsColumn(name, rows) ==
    LET index == SortedDates({rows[i].date : i \in 1..Len(rows)})
    IN  [columns |-> <<name>>, index |-> index,
         data |-> [n \in {name} |-> [i \in 1..Len(index) |-> ValueAt(rows, index[i])]]]

\* the value of a column of a table at a date, NaN where the index has not the date
CellAt(t, name, date) ==
    IF \E i \in 1..Len(t.index) : t.index[i] = date
    THEN t.data[name][CHOOSE i \in 1..Len(t.index) : t.index[i] = date]
    ELSE NaN

\* aligned.join(df, how="outer"): the union of the two indexes, sorted
JoinOuter(t, u) ==
    LET index == SortedDates({t.index[i] : i \in 1..Len(t.index)}
                                \cup {u.index[i] : i \in 1..Len(u.index)})
        tcols == {t.columns[i] : i \in 1..Len(t.columns)}
        ucols == {u.columns[i] : i \in 1..Len(u.columns)}
    IN  [columns |-> t.columns \o u.columns, index |-> index,
         data |-> [n \in tcols \cup ucols |->
                     [i \in 1..Len(index) |->
                        IF n \in tcols THEN CellAt(t, n, index[i]) ELSE CellAt(u, n, index[i])]]]

\* the rows before i (forward) that hold a value
ValidBefore(col, i) == {j \in 1..(i - 1) : col[j] # NaN}

ValidAfter(col, i) == {j \in (i + 1)..Len(col) : col[j] # NaN}

\* Series.ffill(): every NaN takes the last value before it
ffill(col) ==
    [i \in 1..Len(col) |->
        IF col[i] # NaN \/ ValidBefore(col, i) = {} THEN col[i]
        ELSE col[CHOOSE j \in ValidBefore(col, i) : \A k \in ValidBefore(col, i) : k <= j]]

\* Series.ffill(limit=limit): at most limit consecutive NaN after a value take it
ffill_limit(col, limit) ==
    [i \in 1..Len(col) |->
        IF col[i] # NaN \/ ValidBefore(col, i) = {} THEN col[i]
        ELSE LET j == CHOOSE j \in ValidBefore(col, i) : \A k \in ValidBefore(col, i) : k <= j
             IN  IF i - j <= limit THEN col[j] ELSE NaN]

\* Series.bfill(limit=limit): at most limit consecutive NaN before a value take it
bfill_limit(col, limit) ==
    [i \in 1..Len(col) |->
        IF col[i] # NaN \/ ValidAfter(col, i) = {} THEN col[i]
        ELSE LET j == CHOOSE j \in ValidAfter(col, i) : \A k \in ValidAfter(col, i) : j <= k
             IN  IF j - i <= limit THEN col[j] ELSE NaN]

MapColumns(t, F(_)) == [t EXCEPT !.data = [n \in DOMAIN t.data |-> F(t.data[n])]]

\* the loop of align_series over series_dict.items()
RECURSIVE JoinAll(_, _)
JoinAll(aligned, items) ==
    IF items = <<>> THEN aligned
    ELSE LET df == AsColumn(Head(items).name, Head(items).rows)
         IN  JoinAll(IF IsEmptyTable(aligned) THEN df ELSE JoinOuter(aligned, df), Tail(items))

\* align_series(series_dict, method="outer", fill_method="ffill")
align_series(series_dict) == MapColumns(JoinAll(EmptyTable, series_dict), ffill)

FillBounded(col) == bfill_limit(ffill_limit(col, FfillLimit), BfillLimit)

\* _align_features(features)
align_features(features) ==
    IF features = <<>> THEN EmptyTable
    ELSE MapColumns(align_series(features), FillBounded)

\* a feature observed at each of the dates, but for the NaN of its first warm_up rows
FeatureRows(dates, warm_up) ==
    LET index == SortedDates(dates)
    IN  [i \in 1..Len(index) |-> Row(index[i], IF i <= warm_up THEN NaN ELSE Float(index[i]))]

\* the features dicts: a feature on every date up to n, and one observed on at most two dates
AlignInputs ==
    { << [name |-> "f1", rows |-> FeatureRows(1..n, w)],
         [name |-> "f2", rows |-> FeatureRows(ds, 0)] >> :
        n \in 0..MaxGridRows, w \in 0..MaxWarmUp,
        ds \in {x \in SUBSET (1..(MaxGridRows + 1)) : Cardinality(x) <= 2} }

AlignIdle ==
    /\ al_features = <<>>
    /\ al_aligned = EmptyTable
    /\ al_pc = "idle"

AlignInit ==
    /\ al_features \in AlignInputs
    /\ al_aligned = EmptyTable
    /\ al_pc = "built"

\* aligned = self._align_features(all_features)
AlignFeatures ==
    /\ al_pc = "built"
    /\ al_aligned' = align_features(al_features)
    /\ al_pc' = "aligned"
    /\ UNCHANGED al_features
    /\ UNCHANGED not_align

AlignNext == AlignFeatures

(***************************************************************************)
(* DynamicFactorModel._choose_method                                       *)
(* A matrix X of two columns is the numbers of its rows that are complete, *)
(* that miss one value and that miss both.                                 *)
(***************************************************************************)
MaxMatrixRows == 40

MatrixColumns == 2

DfmMinCompleteRows == 30

Matrix(complete, partial, empty) == [complete |-> complete, partial |-> partial, empty |-> empty]

\* len(X), X.size, X.isna().sum().sum(), len(X.dropna())
total_rows(X) == X.complete + X.partial + X.empty

matrix_size(X) == total_rows(X) * MatrixColumns

missing_cells(X) == X.partial + MatrixColumns * X.empty

complete_rows(X) == X.complete

\* dfm_viable = complete_rows >= max(30, total_rows * 0.5)
dfm_viable(X) ==
    /\ complete_rows(X) >= DfmMinCompleteRows
    /\ 2 * complete_rows(X) >= total_rows(X)

\* 0 < missing_pct <= 0.3, with missing_pct = missing / size if size > 0 else 0
moderate_missing(X) ==
    /\ matrix_size(X) > 0
    /\ 0 < missing_cells(X)
    /\ 10 * missing_cells(X) <= 3 * matrix_size(X)

\* _choose_method(X)
choose_method(X, has) ==
    IF dfm_viable(X) /\ moderate_missing(X) /\ has.dfm THEN "dfm"
    ELSE IF has.sklearn THEN "pca_shrunk"
    ELSE IF has.dfm THEN "dfm"
    ELSE "pca"

ChooseIdle ==
    /\ ch_X = Matrix(0, 0, 0)
    /\ ch_has = [dfm |-> TRUE, sklearn |-> TRUE]
    /\ ch_use = "idle"

ChooseInit ==
    /\ \E a \in 0..MaxMatrixRows : \E b \in 0..(MaxMatrixRows - a) :
          \E c \in 0..(MaxMatrixRows - a - b) : ch_X = Matrix(a, b, c)
    /\ ch_has \in [dfm : BOOLEAN, sklearn : BOOLEAN]
    /\ ch_use = "none"

\* use_method = self._choose_method(X_clean)
ChooseMethod ==
    /\ ch_use = "none"
    /\ ch_use' = choose_method(ch_X, ch_has)
    /\ UNCHANGED <<ch_X, ch_has>>
    /\ UNCHANGED not_choose

ChooseNext == ChooseMethod

(***************************************************************************)
(* Factor extraction: DynamicFactorModel.fit / get_result as called by     *)
(* GLCIComputer._compute_pillar_factor                                     *)
(* Whether the estimation of a method succeeds on X is the library's       *)
(* business: it is an input, fixed for X. Loadings are in tenths. The      *)
(* factor is kept by its orientation with respect to the fitted one.       *)
(***************************************************************************)
MaxLoading == 2

DefaultMinObservations == 30

FallbackMinObservations == 20

FitMethods == {"auto", "dfm", "dfm_mq", "pca", "pca_shrunk"}

\* the matrices of a pillar: without and with missing values, long and short
FactorMatrices == {Matrix(40, 0, 0), Matrix(40, 10, 0), Matrix(25, 0, 0), Matrix(10, 5, 0)}

FittedLoadings == [1..MatrixColumns -> (0 - MaxLoading)..MaxLoading]

NewModel(method, min_observations) ==
    [method |-> method, min_observations |-> min_observations, method_used |-> "none",
     fitted |-> FALSE]

NoFactorResult == [method |-> "none", loadings |-> <<>>, factors |-> 0]

\* validate_data(X).is_valid: enough rows with some data (X has its two varying columns)
is_valid(X, min_observations) ==
    /\ X.complete + X.partial >= min_observations
    /\ MatrixColumns >= 2

\* the fit that DynamicFactorModel.fit enters for use_method
FirstFit(use_method, has) ==
    IF use_method = "dfm_mq" /\ has.mq THEN "dfm"
    ELSE IF use_method = "dfm" /\ has.dfm THEN "dfm"
    ELSE IF use_method = "pca_shrunk" /\ has.sklearn THEN "pca_shrunk"
    ELSE "pca"

Raises(env, fit) == env.raises[fit]

\* _fit_dfm: on an exception of the estimation, self._fit_pca(X)
fit_dfm_attempts(env) ==
    IF Raises(env, "dfm") THEN <<"dfm", "pca">> ELSE <<"dfm">>

\* DynamicFactorModel.fit(X): the fits it enters; it raises when validation fails or the
\* last fit entered raises, and otherwise _method_used is the last fit entered
fit_attempts(model, env) ==
    IF ~is_valid(env.X, model.min_observations) THEN <<>>
    ELSE LET use_method == IF model.method = "auto"
                           THEN choose_method(env.X, env.has)
                           ELSE model.method
             first == FirstFit(use_method, env.has)
         IN  IF first = "dfm" THEN fit_dfm_attempts(env) ELSE <<first>>

fit_raises(model, env) ==
    LET attempts == fit_attempts(model, env)
    IN  IF attempts = <<>> THEN TRUE ELSE Raises(env, attempts[Len(attempts)])

\* the model after a fit that returned
fitted_model(model, env) ==
    LET attempts == fit_attempts(model, env)
    IN  [model EXCEPT !.method_used = attempts[Len(attempts)], !.fitted = TRUE]

LoadingSum(loadings) == IntSum(loadings, DOMAIN loadings)

\* _adjust_factor_sign: the factor column is negated when loadings[factor_col].mean() < 0
adjust_factor_sign(factors, loadings) ==
    IF LoadingSum(loadings) < 0 THEN (-1) * factors ELSE factors

\* get_loadings(): the loadings as fitted
get_loadings(env) == env.loadings

\* the orientations transform() can leave in FactorModelResult.factors. The PCA factors are
\* computed anew by each transform(); the dfm ones are the array of the results object,
\* negated in place by each of the two transform() calls of get_result, so what the
\* result holds depends on whether the DataFrame shares that array
result_factors(model, env) ==
    IF model.method_used = "dfm"
    THEN {adjust_factor_sign(1, get_loadings(env)),
          adjust_factor_sign(adjust_factor_sign(1, get_loadings(env)), get_loadings(env))}
    ELSE {adjust_factor_sign(1, get_loadings(env))}

FactorEnvs ==
    {e \in [method : FitMethods,
            has : [dfm : BOOLEAN, sklearn : BOOLEAN, mq : BOOLEAN],
            X : FactorMatrices,
            raises : [{"dfm", "pca_shrunk", "pca"} -> BOOLEAN],
            loadings : FittedLoadings] :
        \* without statsmodels the estimation of the dfm raises (NameError)
        ~e.has.dfm => e.raises["dfm"]}

FactorIdle ==
    /\ fm_env = [method |-> "auto", has |-> [dfm |-> TRUE, sklearn |-> TRUE, mq |-> TRUE],
                 X |-> Matrix(0, 0, 0),
                 raises |-> [f \in {"dfm", "pca_shrunk", "pca"} |-> FALSE],
                 loadings |-> [i \in 1..MatrixColumns |-> 0]]
    /\ fm_model = NewModel("auto", DefaultMinObservations)
    /\ fm_attempts = <<>>
    /\ fm_pc = "idle"
    /\ fm_result = NoFactorResult

\* model = DynamicFactorModel(n_factors=1, ..., method=method, shrinkage_alpha=0.1)
FactorInit ==
    /\ fm_env \in FactorEnvs
    /\ fm_model = NewModel(fm_env.method, DefaultMinObservations)
    /\ fm_attempts = <<>>
    /\ fm_pc = "start"
    /\ fm_result = NoFactorResult

\* model.fit(X) returns
FitReturns ==
    /\ fm_pc \in {"start", "fallback"}
    /\ ~fit_raises(fm_model, fm_env)
    /\ fm_attempts' = fm_attempts \o fit_attempts(fm_model, fm_env)
    /\ fm_model' = fitted_model(fm_model, fm_env)
    /\ fm_pc' = "fitted"
    /\ UNCHANGED <<fm_env, fm_result>>
    /\ UNCHANGED not_factor

\* model.fit(X) raises: the model with method="pca", min_observations=20 is made
FitRaises ==
    /\ fm_pc = "start"
    /\ fit_raises(fm_model, fm_env)
    /\ fm_attempts' = fm_attempts \o fit_attempts(fm_model, fm_env)
    /\ fm_model' = NewModel("pca", FallbackMinObservations)
    /\ fm_pc' = "fallback"
    /\ UNCHANGED <<fm_env, fm_result>>
    /\ UNCHANGED not_factor

\* the fit of the fallback model raises: compute catches it and goes on without the pillar
FallbackRaises ==
    /\ fm_pc = "fallback"
    /\ fit_raises(fm_model, fm_env)
    /\ fm_attempts' = fm_attempts \o fit_attempts(fm_model, fm_env)
    /\ fm_pc' = "dropped"
    /\ UNCHANGED <<fm_env, fm_model, fm_result>>
    /\ UNCHANGED not_factor

\* factor_result = model.get_result()
GetResult ==
    /\ fm_pc = "fitted"
    /\ \E factors \in result_factors(fm_model, fm_env) :
          fm_result' = [method |-> fm_model.method_used,
                        loadings |-> get_loadings(fm_env),
                        factors |-> factors]
    /\ fm_pc' = "result"
    /\ UNCHANGED <<fm_env, fm_model, fm_attempts>>
    /\ UNCHANGED not_factor

FactorNext ==
    \/ FitReturns
    \/ FitRaises
    \/ FallbackRaises
    \/ GetResult

(***************************************************************************)
(* RiskMetricsComputer._compute_asset_metrics                              *)
(* The prices of an asset are daily rows dated 1, 2, ...; the GLCI and the *)
(* risk-free rate are sparser tables. The value of a GLCI row or of a      *)
(* risk-free row is Float(its date), so a merged row tells the row it was  *)
(* matched with. A statistic is None or <<the term of its computation>>.   *)
(***************************************************************************)
MaxPriceRows == 24

MaxFirstGlciDate == 3

MinRegimeObservations == 20

RegimeLabels == {"tight", "neutral", "loose"}

RegimeCodes == {-1, 0, 1}

None == <<>>

\* glci_df["regime"].map({-1: "tight", 0: "neutral", 1: "loose"})
regime_label(code) ==
    IF code = -1 THEN <<"tight">>
    ELSE IF code = 0 THEN <<"neutral">>
    ELSE IF code = 1 THEN <<"loose">>
    ELSE NaN

GlciRow(d, code) == [date |-> d, regime |-> code, regime_label |-> regime_label(code), value |-> Float(d)]

RfRow(d) == [date |-> d, daily_rf |-> Float(d)]

\* pd.merge_asof(left, right, on="date", direction="forward"): the first row
\* of right dated at or after d, 0 when there is none
merge_asof_Forward(d, right) ==
    LET later == {i \in 1..Len(right) : right[i].date >= d}
    IN  IF later = {} THEN 0 ELSE CHOOSE i \in later : \A j \in later : i <= j

\* pd.merge_asof(left, right, on="date", direction="backward"): the last row
\* of right dated at or before d, 0 when there is none
merge_asof(d, right) ==
    LET earlier == {i \in 1..Len(right) : right[i].date <= d}
    IN  IF earlier = {} THEN 0 ELSE CHOOSE i \in earlier : \A j \in earlier : i >= j

\* the columns regime_label and glci_value of a merged row
MergedRegime(d, glci) ==
    LET i == merge_asof(d, glci)
    IN  IF i = 0 THEN [regime_label |-> NaN, glci_value |-> NaN]
        ELSE [regime_label |-> glci[i].regime_label, glci_value |-> glci[i].value]

\* the column daily_rf of a merged row: merged["daily_rf"].fillna(0), or 0
\* when rf_df is None or empty (both are <<>> here)
MergedRf(d, rf) ==
    IF rf = None THEN Float(0)
    ELSE LET i == merge_asof(d, rf)
         IN  IF i = 0 THEN Float(0) ELSE rf[i].daily_rf

MergedRow(d, glci, rf) ==
    [date |-> d,
     regime_label |-> MergedRegime(d, glci).regime_label,
     glci_value |-> MergedRegime(d, glci).glci_value,
     daily_rf |-> MergedRf(d, rf)]

\* price_df["return"] = pct_change(): missing on the first row only
HasReturn(prices, k) == k > 1

\* merged.dropna(subset=["return"])
merged_rows(prices, glci, rf) ==
    LET kept == {k \in 1..Len(prices) : HasReturn(prices, k)}
    IN  [k \in 1..Cardinality(kept) |-> MergedRow(prices[k + Len(prices) - Cardinality(kept)], glci, rf)]

\* regime_data = merged[merged["regime_label"] == regime], as its dates
regime_data(merged, regime) ==
    {merged[k].date : k \in {j \in 1..Len(merged) : merged[j].regime_label = <<regime>>}}

Statistic(fn, obs) == <<[fn |-> fn, over |-> obs]>>

\* if len(regime_data) > 20: the three statistics, else None
regime_statistics(merged, regime) ==
    LET obs == regime_data(merged, regime)
    IN  IF Cardinality(obs) > MinRegimeObservations
        THEN [sharpe |-> Statistic("sharpe", obs),
              return |-> Statistic("return", obs),
              volatility |-> Statistic("volatility", obs)]
        ELSE [sharpe |-> None, return |-> None, volatility |-> None]

by_regime(merged) ==
    [sharpe_by_regime |-> [r \in RegimeLabels |-> regime_statistics(merged, r).sharpe],
     return_by_regime |-> [r \in RegimeLabels |-> regime_statistics(merged, r).return],
     volatility_by_regime |->
         [r \in RegimeLabels |-> regime_statistics(merged, r).volatility]]

NoStatistics ==
    [sharpe_by_regime |-> [r \in RegimeLabels |-> None],
     return_by_regime |-> [r \in RegimeLabels |-> None],
     volatility_by_regime |-> [r \in RegimeLabels |-> None]]

\* glci_df of one or two rows, the first dated 0..MaxFirstGlciDate
GlciTables ==
    {<<GlciRow(d, c)>> : d \in 0..MaxFirstGlciDate, c \in RegimeCodes}
    \cup UNION {{<<GlciRow(d, c), GlciRow(e, b)>> : e \in (d + 1)..(MaxPriceRows + 1), b \in RegimeCodes} :
                d \in 0..MaxFirstGlciDate, c \in RegimeCodes}

RfTables == {None, <<RfRow(3)>>, <<RfRow(3), RfRow(10)>>}

RiskIdle ==
    /\ rk_prices = <<>>
    /\ rk_glci = <<>>
    /\ rk_rf = None
    /\ rk_merged = <<>>
    /\ rk_by_regime = NoStatistics
    /\ rk_pc = "idle"

RiskInit ==
    /\ \E n \in 1..MaxPriceRows : rk_prices = [k \in 1..n |-> k]
    /\ rk_glci \in GlciTables
    /\ rk_rf \in RfTables
    /\ rk_merged = <<>>
    /\ rk_by_regime = NoStatistics
    /\ rk_pc = "fetched"

\* _compute_asset_metrics up to merged = merged.dropna(subset=["return"])
MergeRegimes ==
    /\ rk_pc = "fetched"
    /\ rk_merged' = merged_rows(rk_prices, rk_glci, rk_rf)
    /\ rk_pc' = "merged"
    /\ UNCHANGED <<rk_prices, rk_glci, rk_rf, rk_by_regime>>
    /\ UNCHANGED not_risk

\* for regime in ["tight", "neutral", "loose"]: ...
RegimeStatistics ==
    /\ rk_pc = "merged"
    /\ rk_by_regime' = by_regime(rk_merged)
    /\ rk_pc' = "done"
    /\ UNCHANGED <<rk_prices, rk_glci, rk_rf, rk_merged>>
    /\ UNCHANGED not_risk

RiskNext == MergeRegimes \/ RegimeStatistics

(***************************************************************************)
(* RiskMetricsComputer._compute_rolling_sharpe                             *)
(* The frame handed to it is its column excess_return; the date of a row   *)
(* is its position. The standard deviation of a window is 0 exactly when   *)
(* its values are all equal. An emitted point is kept as its date.         *)
(***************************************************************************)
MaxReturnRows == 270

MaxRuns == 3

RollingWindow == 252

RunLengths == {1, 8, RollingWindow - 1, RollingWindow}

ExcessValues == {Float(0), Float(1), NaN}

\* the rows of the window that ends at row i
WindowRows(i) == {j \in 1..i : j > i - RollingWindow}

\* the observations of the window: its rows that are not NaN
WindowObservations(s, i) == {j \in WindowRows(i) : s[j] # NaN}

\* rolling(window, min_periods=1): a window gives a value from its first
\* observation on
rolling_defined_MinPeriodsOne(s, i) == Cardinality(WindowObservations(s, i)) >= 1

\* rolling(window=self.rolling_window): min_periods defaults to the window, a
\* window with fewer observations gives NaN
rolling_defined(s, i) == Cardinality(WindowObservations(s, i)) >= RollingWindow

\* rolling_std of the window: NaN for fewer than two observations, else 0
\* when they are all equal and a positive number when they are not
rolling_std(s, i) ==
    LET obs == WindowObservations(s, i)
    IN  IF ~rolling_defined(s, i) \/ Cardinality(obs) < 2 THEN NaN
        ELSE IF \A j, k \in obs : s[j] = s[k] THEN Float(0)
        ELSE Float(1)

\* rolling_std.replace(0, np.nan)
replace_zero(x) == IF x = Float(0) THEN NaN ELSE x

\* (rolling_mean / rolling_std.replace(0, np.nan)) * sqrt(252) is NaN at row i
sharpe_isna(s, i) ==
    \/ ~rolling_defined(s, i)
    \/ replace_zero(rolling_std(s, i)) = NaN

\* _compute_rolling_sharpe(df): a point for every row whose sharpe is not NaN
compute_rolling_sharpe(s) ==
    SelectSeq([i \in 1..Len(s) |-> [date |-> i]], LAMBDA point : ~sharpe_isna(s, point.date))

RollIdle ==
    /\ rs_excess = <<>>
    /\ rs_runs = 0
    /\ rs_result = <<>>
    /\ rs_pc = "idle"

RollInit ==
    /\ rs_excess = <<>>
    /\ rs_runs = 0
    /\ rs_result = <<>>
    /\ rs_pc = "building"

\* the caller's frame grows by a run of n rows of the same excess return
AppendRun ==
    /\ rs_pc = "building"
    /\ rs_runs < MaxRuns
    /\ \E n \in RunLengths : \E v \in ExcessValues :
          /\ Len(rs_excess) + n <= MaxReturnRows
          /\ rs_excess' = rs_excess \o [k \in 1..n |-> v]
    /\ rs_runs' = rs_runs + 1
    /\ UNCHANGED <<rs_result, rs_pc>>
    /\ UNCHANGED not_roll

\* rolling_sharpe = self._compute_rolling_sharpe(merged)
ComputeRollingSharpe ==
    /\ rs_pc = "building"
    /\ rs_result' = compute_rolling_sharpe(rs_excess)
    /\ rs_pc' = "done"
    /\ UNCHANGED <<rs_excess, rs_runs>>
    /\ UNCHANGED not_roll

RollNext == AppendRun \/ ComputeRollingSharpe

(***************************************************************************)
(* export_all and the freshness of the GLCI components                     *)
(* The configuration has two series, s1 a component of the pillar          *)
(* liquidity and s2 a component of the pillar stress, one index, and the   *)
(* risk table has one asset. A date is a whole number of days. A payload   *)
(* is kept as the inputs it is computed from.                              *)
(***************************************************************************)
MaxNow == 16

MaxLastDate == 2

StaleDays == 14

ConfiguredSeries == {"s1", "s2"}

PillarComponents == <<[pillar |-> "liquidity", series |-> "s1"], [pillar |-> "stress", series |-> "s2"]>>

GlciPaths == {"api/glci", "api/glci/latest", "api/glci/pillars", "api/glci/regime-history"}

FreshnessPath == "api/glci/freshness"

RiskPaths == {"api/risk", "api/risk/a1"}

SeriesPaths == {"api/series", "api/series/s1", "api/series/s1/latest", "api/series/s2", "api/series/s2/latest"}

IndexPaths == {"api/indices"}

ExportPaths == SeriesPaths \cup IndexPaths \cup GlciPaths \cup {FreshnessPath} \cup RiskPaths

EmptyTree == [p \in ExportPaths |-> <<>>]

SetMax(S) == CHOOSE x \in S : \A y \in S : y <= x

\* write_json(path, payload)
write_json(out, path, payload) == [out EXCEPT ![path] = <<payload>>]

\* export_series_list
export_series_list(out) == write_json(out, "api/series", [ids |-> ConfiguredSeries])

\* export_single_series: False when the raw frame is None or empty, else the
\* series and its latest point are written
single_series_ok(raw_tree, sid) == raw_tree[sid].exists /\ raw_tree[sid].dates # {}

export_single_series(out, raw_tree, sid) ==
    IF ~single_series_ok(raw_tree, sid) THEN out
    ELSE LET path == IF sid = "s1" THEN "api/series/s1" ELSE "api/series/s2"
             latest == IF sid = "s1" THEN "api/series/s1/latest" ELSE "api/series/s2/latest"
         IN  write_json(write_json(out, path, [id |-> sid, data |-> raw_tree[sid].dates]),
                        latest, [id |-> sid, date |-> SetMax(raw_tree[sid].dates)])

\* export_indices_list; export_single_index finds no curated file named as
\* the configured index and writes nothing
export_indices_list(out) == write_json(out, "api/indices", [ids |-> {"global_liquidity_credit_index"}])

\* export_glci returns False when glci or glci_pillars is None or empty, or
\* the weights file does not exist
export_glci_ok(cur) ==
    /\ cur.glci = "rows"
    /\ cur.glci_pillars = "rows"
    /\ cur.weights

export_glci(out, cur) ==
    IF ~export_glci_ok(cur) THEN out
    ELSE LET o1 == write_json(out, "api/glci", [of |-> <<"glci", "glci_pillars", "glci_weights.json">>])
             o2 == write_json(o1, "api/glci/latest", [of |-> <<"glci">>])
             o3 == write_json(o2, "api/glci/pillars", [of |-> <<"glci_pillars", "glci_weights.json">>])
         IN  write_json(o3, "api/glci/regime-history", [of |-> <<"glci", "regime">>])

\* storage.get_latest_date(src, sid): None, or the greatest date of the frame
get_latest_date(raw_tree, sid) ==
    IF raw_tree[sid].exists /\ raw_tree[sid].dates # {} THEN <<SetMax(raw_tree[sid].dates)>> ELSE None

\* the entry of one component in export_glci_freshness
freshness_entry(raw_tree, now, comp) ==
    LET last_date == get_latest_date(raw_tree, comp.series)
    IN  IF last_date # None
        THEN [series_id |-> comp.series, pillar |-> comp.pillar, last_date |-> last_date,
              days_old |-> now - last_date[1], is_stale |-> (now - last_date[1]) > StaleDays]
        ELSE [series_id |-> comp.series, pillar |-> comp.pillar, last_date |-> <<>>,
              days_old |-> -1, is_stale |-> TRUE]

\* export_glci_freshness
export_glci_freshness(out, raw_tree, now) ==
    write_json(out, FreshnessPath, [k \in 1..Len(PillarComponents) |-> freshness_entry(raw_tree, now, PillarComponents[k])])

\* export_risk_metrics writes whatever the risk table is
export_risk_ok_IgnoreMissing(cur) == TRUE

\* export_risk_metrics returns False when risk_metrics is None or empty
export_risk_ok(cur) == cur.risk_metrics = "rows"

\* datetime.utcnow().isoformat() differs from one call to the next
utcnow(now, run) == [day |-> now, call |-> run]

export_risk_metrics(out, cur, now, run) ==
    IF ~export_risk_ok(cur) THEN out
    ELSE LET asset == [id |-> "a1", of |-> <<"risk_metrics", "rolling_sharpe_a1">>]
             current_regime == IF cur.glci = "rows" THEN "of glci" ELSE "neutral"
         IN  write_json(write_json(out, "api/risk",
                                   [computed_at |-> utcnow(now, run), current_regime |-> current_regime,
                                    assets |-> <<asset>>]),
                        "api/risk/a1", asset)

\* GLCIComputer.get_data_freshness: a dict keyed by series id; a component
\* whose fetch raises gets the unknown entry, one whose frame is empty gets
\* no entry
FreshnessAfter(fetch, now, k) ==
    LET comp == PillarComponents[k]
        f == fetch[comp.series]
    IN  IF f.raises
        THEN {[series_id |-> comp.series, pillar |-> comp.pillar, last_date |-> <<>>,
               days_old |-> -1, is_stale |-> TRUE]}
        ELSE IF f.dates # {}
        THEN {[series_id |-> comp.series, pillar |-> comp.pillar, last_date |-> <<SetMax(f.dates)>>,
               days_old |-> now - SetMax(f.dates), is_stale |-> (now - SetMax(f.dates)) > StaleDays]}
        ELSE {}

get_data_freshness(fetch, now) == UNION {FreshnessAfter(fetch, now, k) : k \in 1..Len(PillarComponents)}

TableStates == {"absent", "empty", "rows"}

RawFiles ==
    {[exists |-> FALSE, dates |-> {}], [exists |-> TRUE, dates |-> {}]}
    \cup {[exists |-> TRUE, dates |-> 0..d] : d \in {0, MaxLastDate}}

Fetches ==
    {[raises |-> TRUE, dates |-> {}], [raises |-> FALSE, dates |-> {}]}
    \cup {[raises |-> FALSE, dates |-> 0..d] : d \in {0, MaxLastDate}}

NoRawFile == [exists |-> FALSE, dates |-> {}]

ExportIdle ==
    /\ ex_curated = [glci |-> "absent", glci_pillars |-> "absent", weights |-> FALSE, risk_metrics |-> "absent"]
    /\ ex_raw = [s \in ConfiguredSeries |-> NoRawFile]
    /\ ex_fetch = [s \in ConfiguredSeries |-> [raises |-> TRUE, dates |-> {}]]
    /\ ex_now = 0
    /\ ex_out = EmptyTree
    /\ ex_first = EmptyTree
    /\ ex_run = 0
    /\ ex_pc = "idle"
    /\ ex_api = <<>>

ExportInit ==
    /\ ex_curated \in [glci : TableStates, glci_pillars : TableStates, weights : BOOLEAN,
                       risk_metrics : TableStates]
    /\ ex_raw \in [ConfiguredSeries -> RawFiles]
    /\ ex_fetch = [s \in ConfiguredSeries |-> [raises |-> TRUE, dates |-> {}]]
    /\ ex_now \in (MaxNow - 2)..MaxNow
    /\ ex_out = EmptyTree
    /\ ex_first = EmptyTree
    /\ ex_run = 1
    /\ ex_pc = "start"
    /\ ex_api = <<>>

FreshnessInit ==
    /\ ex_curated = [glci |-> "rows", glci_pillars |-> "rows", weights |-> TRUE, risk_metrics |-> "absent"]
    /\ ex_raw \in [ConfiguredSeries -> RawFiles]
    /\ ex_fetch \in [ConfiguredSeries -> Fetches]
    /\ ex_now \in (MaxNow - 2)..MaxNow
    /\ ex_out = EmptyTree
    /\ ex_first = EmptyTree
    /\ ex_run = 1
    /\ ex_pc = "glci"
    /\ ex_api = <<>>

ExportUnchanged == UNCHANGED <<ex_curated, ex_raw, ex_fetch, ex_now, ex_first, ex_run, ex_api>>

\* export_series_list and the loop over the configured series
ExportSeries ==
    /\ ex_pc = "start"
    /\ ex_out' = export_single_series(export_single_series(export_series_list(ex_out), ex_raw, "s1"),
                                      ex_raw, "s2")
    /\ ex_pc' = "series"
    /\ ExportUnchanged
    /\ UNCHANGED not_export

\* export_indices_list and the loop over the configured indices
ExportIndices ==
    /\ ex_pc = "series"
    /\ ex_out' = export_indices_list(ex_out)
    /\ ex_pc' = "indices"
    /\ ExportUnchanged
    /\ UNCHANGED not_export

\* glci_ok = export_glci(storage, output_dir)
ExportGlci ==
    /\ ex_pc = "indices"
    /\ ex_out' = export_glci(ex_out, ex_curated)
    /\ ex_pc' = IF export_glci_ok(ex_curated) THEN "glci" ELSE "freshness"
    /\ ExportUnchanged
    /\ UNCHANGED not_export

\* else: export_glci_freshness(storage, series_cfg, output_dir)
ExportGlciFreshness ==
    /\ ex_pc = "glci"
    /\ ex_out' = export_glci_freshness(ex_out, ex_raw, ex_now)
    /\ ex_pc' = "freshness"
    /\ ExportUnchanged
    /\ UNCHANGED not_export

\* risk_ok = export_risk_metrics(storage, output_dir); export_all returns
ExportRiskMetrics ==
    /\ ex_pc = "freshness"
    /\ ex_out' = export_risk_metrics(ex_out, ex_curated, ex_now, ex_run)
    /\ ex_pc' = "done"
    /\ ExportUnchanged
    /\ UNCHANGED not_export

\* a day passes between two runs of the exporter
DayPasses ==
    /\ ex_pc = "done"
    /\ ex_run = 1
    /\ ex_now <= MaxNow
    /\ ex_now' = ex_now + 1
    /\ UNCHANGED <<ex_curated, ex_raw, ex_fetch, ex_out, ex_first, ex_run, ex_pc, ex_api>>
    /\ UNCHANGED not_export

\* export_all is run again, on the same inputs and the same output directory
RunAgain ==
    /\ ex_pc = "done"
    /\ ex_run = 1
    /\ ex_first' = ex_out
    /\ ex_run' = 2
    /\ ex_pc' = "start"
    /\ UNCHANGED <<ex_curated, ex_raw, ex_fetch, ex_now, ex_out, ex_api>>
    /\ UNCHANGED not_export

\* the server's /api/glci/freshness: glci_computer.get_data_freshness()
GetDataFreshness ==
    /\ ex_api = <<>>
    /\ ex_api' = <<get_data_freshness(ex_fetch, ex_now)>>
    /\ UNCHANGED <<ex_curated, ex_raw, ex_fetch, ex_now, ex_out, ex_first, ex_run, ex_pc>>
    /\ UNCHANGED not_export

ExportNext ==
    \/ ExportSeries
    \/ ExportIndices
    \/ ExportGlci
    \/ ExportGlciFreshness
    \/ ExportRiskMetrics
    \/ DayPasses
    \/ RunAgain

FreshnessNext == ExportGlciFreshness \/ GetDataFreshness

(***************************************************************************)
(* The numbers of the exported payloads                                    *)
(* A source value is a float: 0, a finite number other than 0, NaN or an   *)
(* infinity; a column that a row may lack is "absent". What is written is  *)
(* one of these floats or null. json.dump is called without allow_nan, so  *)
(* it writes NaN and Infinity as they are.                                 *)
(***************************************************************************)
Number(kind) == [kind |-> kind]

Floats == {Number("zero"), Number("finite"), Number("nan"), Number("inf")}

OptionalFloats == Floats \cup {Number("absent")}

\* pd.isna(x), pd.notna(x): true of NaN and of None, not of an infinity
isna(x) == x.kind \in {"nan", "null", "absent"}

\* row.get(col, 0): the default for a column the row lacks
get_or_zero(x) == IF x.kind = "absent" THEN Number("zero") ELSE x

\* x or 0: 0 for a falsy x (0.0, None); NaN and the infinities are truthy
or_zero(x) == IF x.kind \in {"zero", "null"} THEN Number("zero") ELSE x

\* float(latest.get(col, 0) or 0)
float_get_or_zero(x) == or_zero(get_or_zero(x))

\* float(x) if not pd.isna(x) else 0
float_unless_na(x) == IF isna(x) THEN Number("zero") ELSE x

\* round(float(x), 2) if pd.notna(x) else None
round_or_none(x) == IF isna(x) THEN Number("null") ELSE x

\* change_pct of export_single_series, for a latest value v and the value
\* prev of seven rows before (none for a short series)
change_pct(v, prev) ==
    IF prev.kind \in {"zero", "absent"} \/ isna(prev) THEN Number("zero")
    ELSE IF v.kind = "nan" \/ (v.kind = "inf" /\ prev.kind = "inf") THEN Number("nan")
    ELSE IF v.kind = "inf" THEN Number("inf")
    ELSE IF prev.kind = "inf" THEN Number("finite")
    ELSE v

\* export_single_series: the latest endpoint
series_latest_payload(src) ==
    [value |-> src.series_value, change |-> change_pct(src.series_value, src.series_prev)]

\* export_glci: the fields of the latest row in api/glci and api/glci/latest
glci_payload(src) ==
    [value |-> src.glci_value,
     zscore |-> float_get_or_zero(src.zscore),
     momentum |-> float_get_or_zero(src.momentum),
     prob_regime_change |-> float_get_or_zero(src.prob_regime_change),
     pillar_value |-> float_unless_na(src.pillar_value)]

\* export_risk_metrics: the fields of an asset
risk_payload(src) ==
    [current_sharpe |-> float_unless_na(src.current_sharpe),
     sharpe_tight |-> round_or_none(src.sharpe_tight),
     return_tight |-> round_or_none(src.return_tight)]

JsonSources ==
    [series_value : Floats, series_prev : {Number("finite"), Number("absent")},
     glci_value : {Number("finite"), Number("nan")},
     zscore : OptionalFloats, momentum : {Number("finite"), Number("nan"), Number("absent")},
     prob_regime_change : {Number("zero"), Number("nan")},
     pillar_value : {Number("finite"), Number("nan")},
     current_sharpe : {Number("finite"), Number("nan"), Number("inf")},
     sharpe_tight : OptionalFloats, return_tight : {Number("finite"), Number("nan")}]

NothingWritten == [e \in {"series", "glci", "risk"} |-> <<>>]

JsonIdle ==
    /\ js_src = [series_value |-> Number("zero"), series_prev |-> Number("absent"),
                 glci_value |-> Number("finite"), zscore |-> Number("zero"),
                 momentum |-> Number("finite"), prob_regime_change |-> Number("zero"),
                 pillar_value |-> Number("finite"), current_sharpe |-> Number("finite"),
                 sharpe_tight |-> Number("zero"), return_tight |-> Number("finite")]
    /\ js_out = NothingWritten
    /\ js_pc = "idle"

JsonInit ==
    /\ js_src \in JsonSources
    /\ js_out = NothingWritten
    /\ js_pc = "series"

\* export_single_series writes api/series/<id>/latest
WriteSeriesLatest ==
    /\ js_pc = "series"
    /\ js_out' = [js_out EXCEPT !["series"] = <<series_latest_payload(js_src)>>]
    /\ js_pc' = "glci"
    /\ UNCHANGED js_src
    /\ UNCHANGED not_json

\* export_glci writes api/glci, api/glci/latest and api/glci/pillars
WriteGlci ==
    /\ js_pc = "glci"
    /\ js_out' = [js_out EXCEPT !["glci"] = <<glci_payload(js_src)>>]
    /\ js_pc' = "risk"
    /\ UNCHANGED js_src
    /\ UNCHANGED not_json

\* export_risk_metrics writes api/risk
WriteRisk ==
    /\ js_pc = "risk"
    /\ js_out' = [js_out EXCEPT !["risk"] = <<risk_payload(js_src)>>]
    /\ js_pc' = "done"
    /\ UNCHANGED js_src
    /\ UNCHANGED not_json

JsonNext == WriteSeriesLatest \/ WriteGlci \/ WriteRisk

(***************************************************************************)
(* The cache of a FeatureMatrixBuilder                                     *)
(* GLCIComputer holds one builder and calls build_pillar_matrix once per   *)
(* pillar; each call runs build_feature_matrix over every component of     *)
(* every pillar of the index, with the same start and end date.            *)
(***************************************************************************)
MaxBuilds == 3

\* the components of the index, in the order of the loops
index_series == <<"s1", "s2", "s3">>

IndexSeries == {index_series[i] : i \in 1..Len(index_series)}

CacheTables == {<<>>, <<1>>, <<1, 2>>}

\* the cache after the loops of build_feature_matrix, from component i on
RECURSIVE cache_after_build(_, _, _)
cache_after_build(cache, source_data, i) ==
    IF i > Len(index_series) THEN cache
    ELSE cache_after_build(cache_after_fetch(cache, source_data, index_series[i]),
                           source_data, i + 1)

\* _fetch_series_cached: fetcher.fetch_series is called when the key is not cached
fetcher_invoked(cache, series_id) == series_id \notin DOMAIN cache

CacheIdle ==
    /\ bc_data = [s \in IndexSeries |-> FetchRaises]
    /\ bc_cache = EmptyDict
    /\ bc_invocations = [s \in IndexSeries |-> 0]
    /\ bc_returned = EmptyDict
    /\ bc_builds = MaxBuilds

CacheInit ==
    /\ bc_data \in [IndexSeries -> {FetchRaises} \cup {Fetched(t) : t \in CacheTables}]
    /\ bc_cache = EmptyDict
    /\ bc_invocations = [s \in IndexSeries |-> 0]
    /\ bc_returned = EmptyDict
    /\ bc_builds = 0

\* build_pillar_matrix: build_feature_matrix fetches every component through the
\* cache; a fetch that raises is caught and the component skipped
BuildPillarMatrix ==
    /\ bc_builds < MaxBuilds
    /\ bc_cache' = cache_after_build(bc_cache, bc_data, 1)
    /\ bc_invocations' =
          [s \in IndexSeries |->
              bc_invocations[s] + (IF fetcher_invoked(bc_cache, s) THEN 1 ELSE 0)]
    /\ bc_returned' = bc_cache'
    /\ bc_builds' = bc_builds + 1
    /\ UNCHANGED bc_data
    /\ UNCHANGED not_cache

\* the caller changes a table it got from the cache: it holds a copy
MutateReturned ==
    /\ \E s \in DOMAIN bc_returned, t \in CacheTables :
          /\ t # bc_returned[s]
          /\ bc_returned' = [bc_returned EXCEPT ![s] = t]
    /\ UNCHANGED <<bc_data, bc_cache, bc_invocations, bc_builds>>
    /\ UNCHANGED not_cache

CacheNext == BuildPillarMatrix \/ MutateReturned

(***************************************************************************)
(* The orientation of a component on its way into the GLCI                 *)
(* Each pillar has one component with a level transform; its raw series    *)
(* has the value +1, so the sign of every later quantity is its            *)
(* orientation relative to the raw series.                                 *)
(***************************************************************************)
\* build_feature_matrix: series_sign = comp.get("sign", 1) * pillar_sign
effective_sign(cfg, p) == cfg.comp_sign[p] * cfg.pillar_sign[p]

\* build_feature_matrix of a raw value +1: apply_sign_flip if series_sign < 0
flipped_feature(cfg, p) ==
    apply_sign_flip(<<Row(1, Float(1))>>, effective_sign(cfg, p))[1].value[1]

\* the factor get_result returns for the feature value, from a fit whose one loading
\* has the given sign: _adjust_factor_sign negates the factor when the loading is
\* negative, once, or twice where the two transform() calls share the array
fitted_factor(feature, loading, passes) ==
    LET once == adjust_factor_sign(loading * feature, <<loading>>)
    IN  IF passes = 2 THEN adjust_factor_sign(once, <<loading>>) ELSE once

SignIdle ==
    /\ sg_cfg = [pillar_sign |-> [p \in Pillars |-> 1], comp_sign |-> [p \in Pillars |-> 1]]
    /\ sg_features = [p \in Pillars |-> 1]
    /\ sg_loading = [p \in Pillars |-> 1]
    /\ sg_factors = [p \in Pillars |-> 1]
    /\ sg_inversions = [p \in Pillars |-> 0]
    /\ sg_pc = "idle"

SignInit ==
    /\ sg_cfg \in [pillar_sign : [Pillars -> Signs], comp_sign : [Pillars -> Signs]]
    /\ sg_features = [p \in Pillars |-> 1]
    /\ sg_loading = [p \in Pillars |-> 1]
    /\ sg_factors = [p \in Pillars |-> 1]
    /\ sg_inversions = [p \in Pillars |-> 0]
    /\ sg_pc = "build"

\* build_feature_matrix: the pre-flip of each component
PreFlipFeatures ==
    /\ sg_pc = "build"
    /\ sg_features' = [p \in Pillars |-> flipped_feature(sg_cfg, p)]
    /\ sg_inversions' =
          [p \in Pillars |-> sg_inversions[p] + (IF effective_sign(sg_cfg, p) < 0 THEN 1 ELSE 0)]
    /\ sg_pc' = "fit"
    /\ UNCHANGED <<sg_cfg, sg_loading, sg_factors>>
    /\ UNCHANGED not_sign

\* _compute_pillar_factor: the fit, whatever sign its loadings come out with,
\* and _adjust_factor_sign
FitPillarFactors ==
    /\ sg_pc = "fit"
    /\ \E loading \in [Pillars -> Signs], passes \in [Pillars -> {1, 2}] :
          /\ sg_loading' = loading
          /\ sg_factors' = [p \in Pillars |-> fitted_factor(sg_features[p], loading[p], passes[p])]
    /\ sg_pc' = "sign"
    /\ UNCHANGED <<sg_cfg, sg_features, sg_inversions>>
    /\ UNCHANGED not_sign

\* compute, Step 2: the pillar-level sign adjustment, then the weighted sum
InvertAndCombine ==
    /\ sg_pc = "sign"
    /\ sg_factors' = ApplyPillarSigns(sg_factors, sg_cfg.pillar_sign)
    /\ sg_inversions' =
          [p \in Pillars |-> sg_inversions[p] + (IF sg_cfg.pillar_sign[p] < 0 THEN 1 ELSE 0)]
    /\ sg_pc' = "combined"
    /\ UNCHANGED <<sg_cfg, sg_features, sg_loading>>
    /\ UNCHANGED not_sign

SignNext == PreFlipFeatures \/ FitPillarFactors \/ InvertAndCombine

(***************************************************************************)
(* DataStorage, curated tier                                               *)
(* The datasets of one category. A table is named by its content; the      *)
(* metadata argument is None, an empty dict or a dict with content.        *)
(***************************************************************************)
MaxSaves == 3

CuratedTables == {"t1", "t2"}

MetadataArguments == {"None", "empty", "m1", "m2"}

\* "if metadata:": None and the empty dict are falsy
metadata_given(metadata) == metadata \notin {"None", "empty"}

NoCuratedFiles == [parquet |-> <<>>, meta |-> <<>>]

\* save_curated(df, category, name, metadata) at time now: the parquet file is
\* replaced; <name>_meta.json is written only for a truthy metadata, with saved_at
curated_after_save(files, name, df, metadata, now) ==
    [files EXCEPT ![name] =
        [parquet |-> <<df>>,
         meta |-> IF metadata_given(metadata)
                  THEN <<[metadata |-> metadata, saved_at |-> now]>>
                  ELSE @.meta]]

\* load_curated(category, name): the table of the file, None without a file
load_curated(files, name) == files[name].parquet

\* load_curated_metadata(category, name): the content of <name>_meta.json, None without it
load_curated_metadata(files, name) == files[name].meta

CuratedInit ==
    /\ cu_files = [n \in CuratedNames |-> NoCuratedFiles]
    /\ cu_last = [n \in CuratedNames |-> <<>>]
    /\ cu_clock = 0

CuratedIdle == CuratedInit

\* DataStorage.save_curated(df, category, name, metadata)
SaveCurated ==
    /\ cu_clock < MaxSaves
    /\ \E name \in CuratedNames, df \in CuratedTables, metadata \in MetadataArguments :
          /\ cu_files' = curated_after_save(cu_files, name, df, metadata, cu_clock + 1)
          /\ cu_last' = [cu_last EXCEPT ![name] =
                            <<[df |-> df, metadata |-> metadata, at |-> cu_clock + 1]>>]
    /\ cu_clock' = cu_clock + 1
    /\ UNCHANGED not_curated

CuratedNext == SaveCurated

(***************************************************************************)
(* export_all over changing inputs, with snapshots                         *)
(* The exporter is run several times into the same output directory while  *)
(* raw files and curated tables come and go between the runs.              *)
(***************************************************************************)
MaxExports == 2

SnapshotDates == (MaxNow - 1)..MaxNow

\* export_all up to the snapshot: series, indices, GLCI with its freshness, risk
export_all_tree(out, raw_tree, cur, now, run) ==
    LET series == export_single_series(
                      export_single_series(export_series_list(out), raw_tree, "s1"),
                      raw_tree, "s2")
        indices == export_indices_list(series)
        glci == IF export_glci_ok(cur)
                THEN export_glci_freshness(export_glci(indices, cur), raw_tree, now)
                ELSE indices
    IN  export_risk_metrics(glci, cur, now, run)

\* shutil.rmtree(snap_dir) if it exists, then shutil.copytree(output_dir, snap_dir)
copy_snapshot(snap, out, date_stamp) == [snap EXCEPT ![date_stamp] = <<out>>]

TreeCurated ==
    [glci : {"absent", "rows"}, glci_pillars : {"rows"}, weights : BOOLEAN,
     risk_metrics : TableStates]

TreeIdle ==
    /\ tr_curated = [glci |-> "absent", glci_pillars |-> "rows", weights |-> FALSE,
                     risk_metrics |-> "absent"]
    /\ tr_raw = [s \in ConfiguredSeries |-> NoRawFile]
    /\ tr_out = EmptyTree
    /\ tr_snap = [d \in SnapshotDates |-> <<>>]
    /\ tr_now = MaxNow
    /\ tr_runs = MaxExports
    /\ tr_last = "idle"

TreeInit ==
    /\ tr_curated \in TreeCurated
    /\ tr_raw \in [ConfiguredSeries -> RawFiles]
    /\ tr_out = EmptyTree
    /\ tr_snap = [d \in SnapshotDates |-> <<>>]
    /\ tr_now = MaxNow - 1
    /\ tr_runs = 0
    /\ tr_last = "start"

\* export_all(output_dir, add_snapshot)
ExportAll ==
    /\ tr_runs < MaxExports
    /\ \E add_snapshot \in BOOLEAN :
          /\ tr_out' = export_all_tree(tr_out, tr_raw, tr_curated, tr_now, tr_runs + 1)
          /\ tr_snap' = IF add_snapshot THEN copy_snapshot(tr_snap, tr_out', tr_now) ELSE tr_snap
          /\ tr_last' = IF add_snapshot THEN "snapshot" ELSE "export"
    /\ tr_runs' = tr_runs + 1
    /\ UNCHANGED <<tr_curated, tr_raw, tr_now>>
    /\ UNCHANGED not_tree

\* between two runs a raw file is replaced, emptied or removed
RawFileChanges ==
    /\ tr_last \in {"export", "snapshot"}
    /\ tr_runs < MaxExports
    /\ \E s \in ConfiguredSeries, f \in RawFiles :
          /\ f # tr_raw[s]
          /\ tr_raw' = [tr_raw EXCEPT ![s] = f]
    /\ tr_last' = "change"
    /\ UNCHANGED <<tr_curated, tr_out, tr_snap, tr_now, tr_runs>>
    /\ UNCHANGED not_tree

\* between two runs the curated tables are recomputed, emptied or removed
CuratedChanges ==
    /\ tr_last \in {"export", "snapshot"}
    /\ tr_runs < MaxExports
    /\ \E cur \in TreeCurated :
          /\ cur # tr_curated
          /\ tr_curated' = cur
    /\ tr_last' = "change"
    /\ UNCHANGED <<tr_raw, tr_out, tr_snap, tr_now, tr_runs>>
    /\ UNCHANGED not_tree

\* the date changes between two runs
NextDay ==
    /\ tr_last \in {"export", "snapshot"}
    /\ tr_runs < MaxExports
    /\ tr_now < MaxNow
    /\ tr_now' = tr_now + 1
    /\ tr_last' = "change"
    /\ UNCHANGED <<tr_curated, tr_raw, tr_out, tr_snap, tr_runs>>
    /\ UNCHANGED not_tree

TreeNext == ExportAll \/ RawFileChanges \/ CuratedChanges \/ NextDay

(***************************************************************************)
(* Claims about the raw tier of DataStorage                                *)
(***************************************************************************)
NoDuplicateDates(rows) ==
    \A i, j \in 1..Len(rows) : rows[i].date = rows[j].date => i = j

SortedByDate(rows) ==
    \A i, j \in 1..Len(rows) : i < j => rows[i].date <= rows[j].date

LastPath == FilePath(last_op.source, last_op.series_id)

\* C6: a raw file written by append_raw calls only, the first of them included (made
\* when there was no file yet), holds at most one row per date.
C6_AppendedFileHasUniqueDates ==
    \A p \in RawPaths :
        (raw[p].exists /\ raw_writers[p] = {"append_raw"}) => NoDuplicateDates(raw[p].rows)

\* the rows append_raw had before it: those of the stored file, then those of the delta
MergedInput == prev_file.file.rows \o last_op.df

\* C7: when append_raw merged a delta into an existing file, the row kept for a date
\* that occurred in more than one row is the one with the latest fetched_at, and the
\* stored rows are sorted by date.
C7_KeepsLaterFetchedAt ==
    (last_op.op = "append_raw" /\ prev_file.file.exists) =>
        /\ SortedByDate(raw[LastPath].rows)
        /\ \A i \in 1..Len(raw[LastPath].rows) :
             \A j \in 1..Len(MergedInput) :
                MergedInput[j].date = raw[LastPath].rows[i].date =>
                    MergedInput[j].fetched_at <= raw[LastPath].rows[i].fetched_at

\* C8: append_raw with an empty delta changes neither what load_raw returns for the
\* series nor what list_raw_series returns, whatever the stored file was (or was not).
C8_EmptyAppendIsIdentity ==
    (last_op.op = "append_raw" /\ last_op.df = <<>>) =>
        /\ load_raw(raw, last_op.source, last_op.series_id) = prev_file.file
        /\ list_raw_series(raw, raw_mtime, last_op.source)
             = list_raw_series([raw EXCEPT ![LastPath] = prev_file.file],
                               [raw_mtime EXCEPT ![LastPath] = prev_file.mtime],
                               last_op.source)

(***************************************************************************)
(* Claims about GLCIComputer.compute                                       *)
(***************************************************************************)
AfterBuild == pc \in {"save_glci", "save_pillars", "save_weights", "save_meta", "done"}

LoopDone == pc # "idle" /\ idx > Len(pillar_names)

\* C1: when the pillars that yield a factor are a non-empty proper subset S of the
\* configured pillars, compute does not end in an error, the weight of every p in S is
\* w_p / sum_{q in S} w_q (so the weights of S sum to 1 and keep their ratios), in the
\* returned weights and in the weighted sum, and a failed pillar has weight 0 in the sum.
C1_RenormalisedWeights ==
    LET S == DOMAIN pillar_factors
        total == IntSum(cfg_weight, S)
    IN  (LoopDone /\ S # {} /\ S # Pillars) =>
            /\ pc # "error"
            /\ AfterBuild =>
                /\ DOMAIN result.pillar_weights = S
                /\ \A p \in S :
                     /\ result.pillar_weights[p][1] * total
                            = cfg_weight[p] * result.pillar_weights[p][2]
                     /\ composite[p].coef = result.pillar_weights[p]
                /\ \A p, q \in S :
                     result.pillar_weights[p][1] * result.pillar_weights[q][2] * cfg_weight[q]
                        = result.pillar_weights[q][1] * result.pillar_weights[p][2] * cfg_weight[p]
                /\ RatSum(result.pillar_weights, S) = <<1, 1>>
                /\ \A p \in Pillars \ S : composite[p].coef = <<0, 1>>

\* C1 witness: configured 0.4/0.3/0.3, stress failed, the run is complete with 4/7, 3/7, 0
C1_Witness ==
    /\ pc = "done"
    /\ cfg_weight = [liquidity |-> 4, credit |-> 3, stress |-> 3]
    /\ DOMAIN pillar_factors = {"liquidity", "credit"}
    /\ result.pillar_weights = [liquidity |-> <<4, 7>>, credit |-> <<3, 7>>]
    /\ composite["stress"].coef = <<0, 1>>

\* C2: when factor extraction failed for every configured pillar, compute ends in an
\* error without a result, and no curated artifact is created or modified, whatever
\* save_output is.
C2_AllFailedIsFatal ==
    (LoopDone /\ DOMAIN pillar_factors = {}) =>
        /\ pc \in {"extract", "error"}
        /\ pc = "extract" => (ENABLED NoPillarFactors /\ ~ ENABLED BuildResult)
        /\ result = NoResult
        /\ curated = curated_at_start

\* C2 witness: the run ended in the error with save_output set and earlier artifacts there
C2_Witness ==
    /\ pc = "error"
    /\ save_output
    /\ DOMAIN pillar_factors = {}
    /\ curated[<<storage_root, "glci">>] = "previous"

(***************************************************************************)
(* Claims about detect_regime and the regime timeline                      *)
(***************************************************************************)
\* C3: in every classified row, regime = -1 iff zscore < -1, regime = +1 iff zscore > +1,
\* and regime = 0 otherwise: a z-score of exactly -1 or +1, and a missing one, give 0.
C3_RegimeIffThreshold ==
    rg_pc # "zscored" =>
        \A i \in 1..Len(glci_df) :
            LET z == glci_df[i].zscore
                r == glci_df[i].regime
            IN  /\ r \in {-1, 0, 1}
                /\ (r = -1) <=> (z # NaN /\ z[1] < RegimeLow)
                /\ (r = 1) <=> (z # NaN /\ z[1] > RegimeHigh)
                /\ (z = NaN \/ z \in {Float(RegimeLow), Float(RegimeHigh)}) => r = 0

\* C3 witness: a classified table with a z-score equal to -1, one equal to +1 and a
\* missing one
C3_Witness ==
    /\ rg_pc = "classified"
    /\ \E j, k, l \in 1..Len(glci_df) :
         /\ glci_df[j].zscore = Float(-10) /\ glci_df[j].regime = 0
         /\ glci_df[k].zscore = Float(10) /\ glci_df[k].regime = 0
         /\ glci_df[l].zscore = NaN /\ glci_df[l].regime = 0

\* <<year, month, day>> in calendar order
DateLt(a, b) ==
    \/ a[1] < b[1]
    \/ a[1] = b[1] /\ a[2] < b[2]
    \/ a[1] = b[1] /\ a[2] = b[2] /\ a[3] < b[3]

DateLe(a, b) == a = b \/ DateLt(a, b)

TimelineBuilt == rg_pc \in {"exported", "served"}

\* the observed date of a row, as the timeline writes dates
RowDate(i) == fmt_date(glci_df[i].date)

\* the intervals (as closed intervals start..end) that hold a date
PeriodsHolding(d) ==
    {k \in 1..Len(periods) : DateLe(periods[k].start, d) /\ DateLe(d, periods[k].end)}

\* the intervals that hold a date when every interval but the last excludes its end
PeriodsHoldingHalfOpen(d) ==
    {k \in 1..Len(periods) :
        /\ DateLe(periods[k].start, d)
        /\ IF k = Len(periods) THEN DateLe(d, periods[k].end) ELSE DateLt(d, periods[k].end)}

\* C4 as stated: the intervals are sorted, no observed date belongs to two intervals,
\* every observed row is covered exactly once, and adjacent intervals differ in label.
C4_DisjointCover ==
    TimelineBuilt =>
        /\ \A k \in 1..Len(periods) - 1 : DateLe(periods[k].start, periods[k + 1].start)
        /\ \A i \in 1..Len(glci_df) : Cardinality(PeriodsHolding(RowDate(i))) = 1
        /\ \A k \in 1..Len(periods) - 1 : periods[k].regime # periods[k + 1].regime

\* C4 amended: the intervals are sorted, adjacent intervals differ in label, and every
\* interval but the last ends on the start date of the next (the last ends on the last
\* observed date); reading every interval but the last as excluding its end date, every
\* observed row lies in exactly one interval, and that interval carries the row's regime.
C4_AbuttingCover ==
    TimelineBuilt =>
        /\ \A k \in 1..Len(periods) : DateLe(periods[k].start, periods[k].end)
        /\ \A k \in 1..Len(periods) - 1 :
             /\ DateLt(periods[k].start, periods[k + 1].start)
             /\ periods[k].end = periods[k + 1].start
             /\ periods[k].regime # periods[k + 1].regime
        /\ Len(glci_df) > 0 =>
             (Len(periods) > 0 /\ periods[Len(periods)].end = RowDate(Len(glci_df)))
        /\ \A i \in 1..Len(glci_df) :
             /\ Cardinality(PeriodsHoldingHalfOpen(RowDate(i))) = 1
             /\ \A k \in PeriodsHoldingHalfOpen(RowDate(i)) :
                  periods[k].regime = REGIME_LABELS(glci_df[i].regime)

\* C4 witness: an exported timeline of three intervals whose last run is a single row
C4_Witness ==
    /\ rg_pc = "exported"
    /\ Len(glci_df) = 4
    /\ Len(periods) = 3
    /\ glci_df[3].regime # glci_df[4].regime

ScenarioZ == <<Float(-12), Float(-9), Float(0), Float(11), Float(20)>>

\* the table of the scenario: 2020-01-01..2020-01-05 with z-scores -1.2, -0.9, 0.0, 1.1, 2.0
IsScenario ==
    /\ Len(glci_df) = 5
    /\ \A i \in 1..5 : glci_df[i].date = 24 * (i - 1) /\ glci_df[i].zscore = ScenarioZ[i]

ScenarioRegimes == [i \in 1..Len(glci_df) |-> glci_df[i].regime] = <<-1, 0, 0, 1, 1>>

\* C5 as stated: for the scenario table the regimes are -1, 0, 0, 1, 1 and the timeline is
\* (-1, 2020-01-01, 2020-01-02), (0, 2020-01-02, 2020-01-03), (1, 2020-01-03, 2020-01-05).
C5_ScenarioTimeline ==
    (TimelineBuilt /\ IsScenario) =>
        /\ ScenarioRegimes
        /\ periods = << [regime |-> "tight", start |-> <<2020, 1, 1>>, end |-> <<2020, 1, 2>>],
                        [regime |-> "neutral", start |-> <<2020, 1, 2>>, end |-> <<2020, 1, 3>>],
                        [regime |-> "loose", start |-> <<2020, 1, 3>>, end |-> <<2020, 1, 5>>] >>

\* C5 amended: for the scenario table the regimes are -1, 0, 0, 1, 1 and the timeline is
\* (tight, 2020-01-01, 2020-01-02), (neutral, 2020-01-02, 2020-01-04),
\* (loose, 2020-01-04, 2020-01-05): an interval ends on the first date of the next run.
C5_ScenarioTimelineOfCode ==
    (TimelineBuilt /\ IsScenario) =>
        /\ ScenarioRegimes
        /\ periods = << [regime |-> "tight", start |-> <<2020, 1, 1>>, end |-> <<2020, 1, 2>>],
                        [regime |-> "neutral", start |-> <<2020, 1, 2>>, end |-> <<2020, 1, 4>>],
                        [regime |-> "loose", start |-> <<2020, 1, 4>>, end |-> <<2020, 1, 5>>] >>

\* C5 witness: the timeline of the scenario table has been exported
C5_Witness == rg_pc = "exported" /\ IsScenario /\ Len(periods) = 3

(***************************************************************************)
(* Claims about the file writes                                            *)
(***************************************************************************)
\* C9: with one writer (save_raw, save_curated, _save_results, write_json) and a
\* concurrent reader, the file at a final path is at every instant the complete
\* previous version (or absent, if there was none) or the complete new version, and
\* the reader (load_curated, load_curated_metadata, list_curated) never gets a file
\* that is partially written.
C9_FinalPathsHoldCompleteVersions ==
    /\ \A p \in WritePaths :
          \/ disk[p] = committed[p]
          \/ w_open /\ Head(w_queue) = p /\ disk[p] = Content(w_calls, FileChunks)
    /\ seen.file = NoFile \/ Complete(seen.file)
    /\ \A e \in seen.listing : Complete(e.file)

(***************************************************************************)
(* Claims about build_feature_matrix                                       *)
(***************************************************************************)
\* the component the last pass of the loop body was for
LastComponent == ft_cfg.components[ft_idx - 1]

Negated(df) ==
    [i \in 1..Len(df) |->
        [date |-> df[i].date,
         value |-> IF df[i].value = NaN THEN NaN ELSE <<(-1) * df[i].value[1]>>]]

\* the resampled values of the component's series, negated once iff
\* pillar.sign * component.sign = -1
ExpectedInput(comp) ==
    LET resampled == resample_to_frequency(ft_raw[comp.series].rows)
    IN  IF ft_cfg.pillar_sign[comp.pillar] * comp.sign = -1
        THEN Negated(resampled)
        ELSE resampled

AlwaysStored(comp) ==
    {comp.transform[k] : k \in 1..Len(comp.transform)}
        \cap {"level", "zscore", "growth", "gap"}

\* C10: in build_feature_matrix, what the transforms of a component are given is the
\* resampled series negated exactly once if pillar.sign * component.sign = -1 and not
\* negated otherwise; every feature stored is a transform (level, zscore, growth, gap,
\* impulse, hp_gap) computed on those values, so the negation comes before the
\* transform; and every FeatureMetadata record emitted has sign = +1.
C10_FlippedOnceBeforeTransforms ==
    /\ \A i \in 1..Len(ft_metadata) : ft_metadata[i].sign = 1
    /\ \A name \in DOMAIN ft_features :
          \E i \in 1..(ft_idx - 1) :
              LET comp == ft_cfg.components[i]
              IN  /\ comp.series = name[1]
                  /\ \E k \in 1..Len(comp.transform) : comp.transform[k] = name[2]
                  /\ ft_features[name].values = feature_values(name[2], ExpectedInput(comp))
    /\ ft_step = "built" =>
          /\ ft_df = ExpectedInput(LastComponent)
          /\ \A t \in AlwaysStored(LastComponent) :
                /\ feature_name(LastComponent.series, t) \in DOMAIN ft_features
                /\ ft_features[feature_name(LastComponent.series, t)].values
                       = feature_values(t, ExpectedInput(LastComponent))

\* C10 witness: two components with pillar.sign * component.sign = -1 on the same series
\* (the second served from the cache) have been built, and the values the transforms of
\* the second were given differ from the resampled series
C10_Witness ==
    /\ ft_idx = 3 /\ ft_step = "built"
    /\ ft_cfg.components[1].series = ft_cfg.components[2].series
    /\ \A i \in 1..2 : series_sign(ft_cfg, ft_cfg.components[i]) = -1
    /\ ft_df # resample_to_frequency(ft_raw[LastComponent.series].rows)
    /\ Len(ft_metadata) >= 2
    /\ \E k \in 1..Len(LastComponent.transform) : LastComponent.transform[k] = "growth"

(***************************************************************************)
(* Claims about _align_features                                            *)
(***************************************************************************)
\* the rows of the feature, as given to _align_features, that hold a value
ObservedDates(name) ==
    LET f == al_features[CHOOSE i \in 1..Len(al_features) : al_features[i].name = name]
    IN  {f.rows[i].date : i \in {j \in 1..Len(f.rows) : f.rows[j].value # NaN}}

\* the aligned matrix holds at row i, for the feature, the value observed at row j
TakenFrom(name, i, j) ==
    /\ al_aligned.index[j] \in ObservedDates(name)
    /\ al_aligned.data[name][i] = Float(al_aligned.index[j])

\* C11: in the aligned matrix a value of a feature at a row where the feature has no
\* observation is the value observed at most 13 rows before it, or at most 4 rows after
\* it; every row further than that from an observation of the feature is missing.
C11_FillsAreBounded ==
    al_pc = "aligned" =>
        \A n \in DOMAIN al_aligned.data :
            \A i \in 1..Len(al_aligned.index) :
                al_aligned.data[n][i] # NaN =>
                    \E j \in 1..Len(al_aligned.index) :
                        /\ TakenFrom(n, i, j)
                        /\ i - j <= FfillLimit
                        /\ j - i <= BfillLimit

(***************************************************************************)
(* Claims about the factor model                                           *)
(***************************************************************************)
\* C12: with both dependencies available, method=auto starts with dfm exactly when the
\* complete rows are >= max(30, 0.5 * total_rows) and the missing fraction is <= 0.3
\* (a matrix with no missing value included), and with pca_shrunk in every other case.
C12_AutoStartsWithDfm ==
    (ch_use \notin {"none", "idle"} /\ ch_has.dfm /\ ch_has.sklearn) =>
        IF /\ complete_rows(ch_X) >= DfmMinCompleteRows
           /\ 2 * complete_rows(ch_X) >= total_rows(ch_X)
           /\ 10 * missing_cells(ch_X) <= 3 * matrix_size(ch_X)
        THEN ch_use = "dfm"
        ELSE ch_use = "pca_shrunk"

\* the fit entered at position i of the attempts raised
AttemptRaised(i) == fm_env.raises[fm_attempts[i]]

\* C13: the fallback ladder is DFM -> PCA-shrunk -> PCA: after a DFM fit that raised, the
\* next fit attempted is PCA-shrunk; plain PCA, when it is not the first fit, comes only
\* after a PCA-shrunk fit that failed; a pillar some fit was attempted for is dropped only
\* when PCA has failed too and, if the ladder started at DFM, PCA-shrunk as well; and the
\* method of the result is the fit that produced the factor.
C13_FallbackLadder ==
    /\ \A i \in 1..Len(fm_attempts) :
          /\ (fm_attempts[i] = "dfm" /\ AttemptRaised(i) /\ i < Len(fm_attempts))
                => fm_attempts[i + 1] = "pca_shrunk"
          /\ (fm_attempts[i] = "pca" /\ i > 1)
                => \E j \in 1..(i - 1) : fm_attempts[j] = "pca_shrunk" /\ AttemptRaised(j)
    /\ (fm_pc = "dropped" /\ fm_attempts # <<>>) =>
          /\ \E i \in 1..Len(fm_attempts) : fm_attempts[i] = "pca" /\ AttemptRaised(i)
          /\ fm_attempts[1] = "dfm"
                => \E i \in 1..Len(fm_attempts) : fm_attempts[i] = "pca_shrunk"
    /\ fm_pc = "result" =>
          /\ fm_result.method = fm_attempts[Len(fm_attempts)]
          /\ ~AttemptRaised(Len(fm_attempts))

\* C14: the FactorModelResult of get_result has its factor and its loadings both
\* multiplied by -1 exactly when the mean of the fitted loadings is negative, so the mean
\* of the loadings returned is >= 0.
C14_ResultIsSignOriented ==
    fm_pc = "result" =>
        LET flip == LoadingSum(fm_env.loadings) < 0
        IN  /\ fm_result.factors = (IF flip THEN -1 ELSE 1)
            /\ fm_result.loadings =
                  [i \in DOMAIN fm_env.loadings |->
                      IF flip THEN (-1) * fm_env.loadings[i] ELSE fm_env.loadings[i]]
            /\ LoadingSum(fm_result.loadings) >= 0

(***************************************************************************)
(* Claims about the risk metrics                                           *)
(***************************************************************************)
\* the in-regime return observations of a regime: the dates of the merged
\* rows labelled with it
InRegime(regime) == {rk_merged[k].date : k \in {j \in 1..Len(rk_merged) : rk_merged[j].regime_label = <<regime>>}}

\* C15: for every regime in tight, neutral, loose, the per-regime Sharpe,
\* return and volatility are null if and only if fewer than 20 in-regime
\* return observations exist; with 20 or more each is a number computed over
\* exactly those observations.
C15_RegimeStatisticNullBelowTwenty ==
    rk_pc = "done" =>
        \A r \in RegimeLabels :
            /\ (rk_by_regime.sharpe_by_regime[r] = None) <=> (Cardinality(InRegime(r)) < 20)
            /\ (rk_by_regime.return_by_regime[r] = None) <=> (Cardinality(InRegime(r)) < 20)
            /\ (rk_by_regime.volatility_by_regime[r] = None) <=> (Cardinality(InRegime(r)) < 20)
            /\ Cardinality(InRegime(r)) >= 20 =>
                  /\ rk_by_regime.sharpe_by_regime[r] = Statistic("sharpe", InRegime(r))
                  /\ rk_by_regime.return_by_regime[r] = Statistic("return", InRegime(r))
                  /\ rk_by_regime.volatility_by_regime[r] = Statistic("volatility", InRegime(r))

\* the rows of a table dated at or before d
NotAfter(table, d) == {i \in 1..Len(table) : table[i].date <= d}

\* row i of the table is the one with the greatest date at or before d
GreatestNotAfter(table, d, i) ==
    /\ i \in NotAfter(table, d)
    /\ \A j \in NotAfter(table, d) : table[j].date <= table[i].date

\* C17: every return row dated d has the regime label and the risk-free rate
\* of the row with the greatest date <= d of the GLCI, resp. of the risk-free
\* table, never of a row dated after d; a return row dated before the first
\* GLCI row has no regime label and is counted in no per-regime statistic.
C17_BackwardAsOfMerge ==
    rk_pc \in {"merged", "done"} =>
        \A k \in 1..Len(rk_merged) :
            LET row == rk_merged[k]
            IN  /\ NotAfter(rk_glci, row.date) # {} =>
                      \E i \in 1..Len(rk_glci) :
                          /\ GreatestNotAfter(rk_glci, row.date, i)
                          /\ row.regime_label = rk_glci[i].regime_label
                          /\ row.glci_value = rk_glci[i].value
                /\ NotAfter(rk_glci, row.date) = {} =>
                      /\ row.regime_label = NaN
                      /\ row.glci_value = NaN
                      /\ rk_pc = "done" =>
                            \A r \in RegimeLabels :
                                \A stat \in {rk_by_regime.sharpe_by_regime[r], rk_by_regime.return_by_regime[r],
                                              rk_by_regime.volatility_by_regime[r]} :
                                    stat # None => row.date \notin stat[1].over
                /\ NotAfter(rk_rf, row.date) # {} =>
                      \E i \in 1..Len(rk_rf) :
                          /\ GreatestNotAfter(rk_rf, row.date, i)
                          /\ row.daily_rf = rk_rf[i].daily_rf

\* a return row dated before the first GLCI row, a return row dated between
\* the two GLCI rows, and a regime whose statistics were computed
C17_Witness ==
    /\ rk_pc = "done"
    /\ Len(rk_glci) = 2
    /\ \E k \in 1..Len(rk_merged) : rk_merged[k].date < rk_glci[1].date
    /\ \E k \in 1..Len(rk_merged) :
          /\ rk_glci[1].date < rk_merged[k].date
          /\ rk_merged[k].date < rk_glci[2].date
          /\ rk_merged[k].glci_value = rk_glci[1].value
    /\ \E k \in 1..Len(rk_merged) : rk_merged[k].daily_rf = Float(3) /\ rk_merged[k].date > 3
    /\ \E r \in RegimeLabels : rk_by_regime.sharpe_by_regime[r] # None

\* C16: every rolling-Sharpe point emitted has a trailing window of exactly
\* 252 non-missing excess returns whose standard deviation is not 0: no
\* point is emitted for the first 251 rows, for a window that contains a
\* missing excess return, or for a window of equal values; a constant series
\* of 260 rows gives an empty list.
C16_RollingPointsHaveFullWindow ==
    rs_pc = "done" =>
        /\ \A p \in 1..Len(rs_result) :
              LET i == rs_result[p].date
              IN  /\ i >= 252
                  /\ i <= Len(rs_excess)
                  /\ \A j \in (i - 251)..i : rs_excess[j] # NaN
                  /\ \E j, k \in (i - 251)..i : rs_excess[j] # rs_excess[k]
        /\ (Len(rs_excess) = 260 /\ \A j, k \in 1..260 : rs_excess[j] = rs_excess[k]) => rs_result = <<>>

\* a series of 260 rows whose last rows have a point, the window of the
\* first of them holding both values
C16_Witness ==
    /\ rs_pc = "done"
    /\ Len(rs_excess) = 260
    /\ rs_result # <<>>
    /\ rs_result[1].date = 252
    /\ \E j \in 1..260 : rs_excess[j] = NaN

(***************************************************************************)
(* Claims about the exporter and the freshness of the components           *)
(***************************************************************************)
\* C18: when glci, glci_pillars and glci_weights.json are present and
\* risk_metrics is absent, a finished export_all has written the five GLCI
\* paths (api/glci, api/glci/latest, api/glci/pillars,
\* api/glci/regime-history, api/glci/freshness) and nothing under api/risk.
C18_GlciWithoutRisk ==
    (/\ ex_pc = "done"
     /\ ex_curated.glci = "rows"
     /\ ex_curated.glci_pillars = "rows"
     /\ ex_curated.weights
     /\ ex_curated.risk_metrics = "absent") =>
        /\ \A p \in {"api/glci", "api/glci/latest", "api/glci/pillars", "api/glci/regime-history",
                     "api/glci/freshness"} : ex_out[p] # <<>>
        /\ \A p \in {"api/risk", "api/risk/a1"} : ex_out[p] = <<>>

\* a first run that finished on such a tree
C18_Witness ==
    /\ ex_pc = "done"
    /\ ex_run = 1
    /\ ex_curated = [glci |-> "rows", glci_pillars |-> "rows", weights |-> TRUE, risk_metrics |-> "absent"]
    /\ ex_out["api/glci/freshness"] # <<>>
    /\ ex_out["api/risk"] = <<>>

\* the freshness entry e is the one the claim asks for a component, given
\* whether the component has data
RightEntry(e, has_data) ==
    IF has_data THEN e.is_stale <=> (e.days_old > 14)
    ELSE e.days_old = -1 /\ e.is_stale

\* C19: the freshness output, of the exporter and of the server, has exactly
\* one entry for every component series of a GLCI pillar; a component with
\* no data (no file, or an empty series) has days_old = -1 and is_stale, and
\* a component with data is stale if and only if days_old > 14.
C19_FreshnessPerComponent ==
    /\ ex_out[FreshnessPath] # <<>> =>
          LET entries == ex_out[FreshnessPath][1]
          IN  /\ Len(entries) = Len(PillarComponents)
              /\ \A k \in 1..Len(PillarComponents) :
                    LET of_comp == {i \in 1..Len(entries) : entries[i].series_id = PillarComponents[k].series}
                    IN  /\ Cardinality(of_comp) = 1
                        /\ \A i \in of_comp :
                              /\ entries[i].pillar = PillarComponents[k].pillar
                              /\ RightEntry(entries[i], ex_raw[PillarComponents[k].series].dates # {})
    /\ ex_api # <<>> =>
          \A k \in 1..Len(PillarComponents) :
              LET of_comp == {e \in ex_api[1] : e.series_id = PillarComponents[k].series}
              IN  /\ Cardinality(of_comp) = 1
                  /\ \A e \in of_comp :
                        /\ e.pillar = PillarComponents[k].pillar
                        /\ RightEntry(e, ex_fetch[PillarComponents[k].series].dates # {})

\* a payload without its computed_at field
WithoutComputedAt(path, content) ==
    IF path = "api/risk" /\ content # <<>>
    THEN <<[f \in (DOMAIN content[1]) \ {"computed_at"} |-> content[1][f]]>>
    ELSE content

\* C20: after export_all has run twice over the same raw and curated inputs
\* and the same configuration, every file of the output tree is what the
\* first run left, except for computed_at fields.
C20_ExportIsIdempotent ==
    (ex_run = 2 /\ ex_pc = "done") =>
        \A p \in ExportPaths : WithoutComputedAt(p, ex_out[p]) = WithoutComputedAt(p, ex_first[p])

(***************************************************************************)
(* Claims about the metadata and the persistence of a GLCI run             *)
(***************************************************************************)
\* C21: when at least one but not all of the configured pillars produced a
\* factor, the run continues and the metadata of the result holds a field
\* missing_pillars (naming exactly the pillars that failed).
C21_MissingPillarsInMetadata ==
    (LoopDone /\ DOMAIN pillar_factors # {} /\ MissingPillars(pillar_factors) # {}) =>
        /\ pc # "error"
        /\ AfterBuild => "missing_pillars" \in result.metadata

\* C24: a compute(save_output=true) that returned has written glci,
\* glci_pillars, glci_weights.json and glci_meta.json under the indices
\* directory of the curated root of the storage the computer was built with,
\* and a compute(save_output=false) has written no file.
C24_ArtifactsUnderStorageRoot ==
    pc = "done" =>
        IF save_output
        THEN \A a \in Artifacts : curated[<<storage_root, a>>] = ThisRun
        ELSE curated = curated_at_start

\* C22: a pillar whose matrix has fewer than 30 valid rows (the default
\* min_observations), or fewer than 2 varying columns, is rejected before a
\* fit of any method is attempted, and the pillar is dropped: no fit is ever
\* entered for it and no factor is returned.
C22_RejectedBeforeAnyFit ==
    (fm_pc # "idle" /\ (fm_env.X.complete + fm_env.X.partial < 30 \/ MatrixColumns < 2)) =>
        /\ fm_attempts = <<>>
        /\ fm_pc \in {"start", "fallback", "dropped"}

(***************************************************************************)
(* Claims about the numbers of the exported payloads                       *)
(***************************************************************************)
\* the fields written so far
WrittenFields ==
    UNION {{js_out[e][1][f] : f \in DOMAIN js_out[e][1]} : e \in {e \in DOMAIN js_out : js_out[e] # <<>>}}

\* C23: no JSON file of the exporter holds a NaN or an infinite number: a
\* numeric field whose source is missing or not finite (the latest series
\* value, the latest zscore, momentum or prob_regime_change) is written as
\* 0, and a per-regime Sharpe or return whose source is missing as null.
C23_NoNaNInJson ==
    /\ \A x \in WrittenFields : x.kind \notin {"nan", "inf"}
    /\ js_out["series"] # <<>> =>
          (js_src.series_value.kind \in {"nan", "inf"} => js_out["series"][1].value.kind = "zero")
    /\ js_out["glci"] # <<>> =>
          /\ js_src.zscore.kind \in {"nan", "inf", "absent"} => js_out["glci"][1].zscore.kind = "zero"
          /\ js_src.momentum.kind \in {"nan", "absent"} => js_out["glci"][1].momentum.kind = "zero"
          /\ js_src.prob_regime_change.kind = "nan" => js_out["glci"][1].prob_regime_change.kind = "zero"
    /\ js_out["risk"] # <<>> =>
          /\ js_src.sharpe_tight.kind \in {"nan", "absent"} => js_out["risk"][1].sharpe_tight.kind = "null"
          /\ js_src.return_tight.kind = "nan" => js_out["risk"][1].return_tight.kind = "null"

(***************************************************************************)
(* Claims about the order of the stages of compute                         *)
(***************************************************************************)
\* the positions of a stage in the run so far
StagePositions(kind, name) == {i \in 1..Len(stages) : stages[i] = <<kind, name>>}

\* every occurrence of the first stage is before every occurrence of the second
StageBefore(k1, n1, k2, n2) ==
    \A i \in StagePositions(k1, n1), j \in StagePositions(k2, n2) : i < j

\* the pillars whose loop turn is over
PillarsSettled == {p \in Pillars : StagePositions("extract", p) \cup StagePositions("failed", p) # {}}

C26_FetchedAtMostOnce ==
    /\ \A s \in IndexSeries : bc_invocations[s] <= 1
    /\ \A s \in DOMAIN bc_cache : bc_cache[s] = bc_data[s].rows

(***************************************************************************)
(* Claims about the orientation of a component in the GLCI                 *)
(***************************************************************************)
\* C27: for a pillar of sign -1 (stress) with a component of sign +1, the
\* pillar factor that enters the composite is inverted relative to the raw
\* component series (higher stress = lower index): the net number of sign
\* inversions between the raw series and its contribution is odd.
C27_StressEntersInverted ==
    sg_pc = "combined" =>
        \A p \in Pillars :
            (sg_cfg.pillar_sign[p] = -1 /\ sg_cfg.comp_sign[p] = 1) =>
                /\ sg_factors[p] = -1
                /\ sg_inversions[p] % 2 = 1

\* C28: distinct (source, series_id) pairs are stored independently: a
\* save_raw or append_raw call for one series id never changes what
\* load_raw, get_latest_date or get_date_range return for a different
\* series id of the same source, including ids that differ only in the
\* characters ':', '/' and '_'.
C28_SeriesStoredIndependently ==
    [][last_op'.op # "none" =>
          \A source \in Sources, other \in SeriesIds \ {last_op'.series_id} :
              /\ load_raw(raw', source, other) = load_raw(raw, source, other)
              /\ get_date_range(raw', source, other) = get_date_range(raw, source, other)]_vars

(***************************************************************************)
(* Claims about the curated tier of DataStorage                            *)
(***************************************************************************)
\* C29: after any sequence of save_curated calls for one (category, name),
\* load_curated returns the table of the most recent call and
\* load_curated_metadata describes that same call: the metadata passed with
\* it plus saved_at, and absent when that call passed no metadata or an
\* empty one.
C29_MetadataOfLatestSave ==
    \A name \in CuratedNames :
        cu_last[name] # <<>> =>
            LET call == cu_last[name][1]
            IN  /\ load_curated(cu_files, name) = <<call.df>>
                /\ load_curated_metadata(cu_files, name) =
                      IF metadata_given(call.metadata)
                      THEN <<[metadata |-> call.metadata, saved_at |-> call.at]>>
                      ELSE <<>>

(***************************************************************************)
(* Claims about the output tree of export_all                              *)
(***************************************************************************)
\* whether the artifact a path of the output tree belongs to exists now
ArtifactExists(path) ==
    IF path \in {"api/series/s1", "api/series/s1/latest"} THEN single_series_ok(tr_raw, "s1")
    ELSE IF path \in {"api/series/s2", "api/series/s2/latest"} THEN single_series_ok(tr_raw, "s2")
    ELSE IF path \in GlciPaths \cup {FreshnessPath} THEN export_glci_ok(tr_curated)
    ELSE IF path \in RiskPaths THEN export_risk_ok(tr_curated)
    ELSE TRUE

\* C30: after export_all completes, every file under <output>/api belongs to
\* a series, index, GLCI or risk artifact that exists at the time of the
\* run, so no file of an earlier export remains for an artifact that has
\* since been removed or become empty; and with the snapshot option the
\* snapshot directory of the day is an exact copy of the output tree.
C30_TreeReflectsThisRun ==
    /\ tr_last \in {"export", "snapshot"} =>
          \A path \in ExportPaths : tr_out[path] # <<>> => ArtifactExists(path)
    /\ tr_last = "snapshot" => tr_snap[tr_now] = <<tr_out>>

InitGLCI == GLCIInit /\ RegimeIdle /\ RawIdle /\ WriteIdle /\ FeatIdle /\ AlignIdle
    /\ ChooseIdle /\ FactorIdle /\ RiskIdle /\ RollIdle /\ ExportIdle /\ JsonIdle /\ CacheIdle
    /\ SignIdle /\ CuratedIdle /\ TreeIdle

SpecGLCI == InitGLCI /\ [][GLCINext]_vars

InitRegime == RegimeInit /\ GLCIIdle /\ RawIdle /\ WriteIdle /\ FeatIdle /\ AlignIdle
    /\ ChooseIdle /\ FactorIdle /\ RiskIdle /\ RollIdle /\ ExportIdle /\ JsonIdle /\ CacheIdle
    /\ SignIdle /\ CuratedIdle /\ TreeIdle

SpecRegime == InitRegime /\ [][RegimeNext]_vars

InitClassify == ClassifyInit /\ GLCIIdle /\ RawIdle /\ WriteIdle /\ FeatIdle /\ AlignIdle
    /\ ChooseIdle /\ FactorIdle /\ RiskIdle /\ RollIdle /\ ExportIdle /\ JsonIdle /\ CacheIdle
    /\ SignIdle /\ CuratedIdle /\ TreeIdle

SpecClassify == InitClassify /\ [][RegimeNext]_vars

InitRaw == RawInit /\ GLCIIdle /\ RegimeIdle /\ WriteIdle /\ FeatIdle /\ AlignIdle /\ ChooseIdle
    /\ FactorIdle /\ RiskIdle /\ RollIdle /\ ExportIdle /\ JsonIdle /\ CacheIdle /\ SignIdle
    /\ CuratedIdle /\ TreeIdle

SpecRaw == InitRaw /\ [][RawNext]_vars

InitWrite == WriteInit /\ GLCIIdle /\ RegimeIdle /\ RawIdle /\ FeatIdle /\ AlignIdle
    /\ ChooseIdle /\ FactorIdle /\ RiskIdle /\ RollIdle /\ ExportIdle /\ JsonIdle /\ CacheIdle
    /\ SignIdle /\ CuratedIdle /\ TreeIdle

SpecWrite == InitWrite /\ [][WriteNext]_vars

InitFeat == FeatInit /\ GLCIIdle /\ RegimeIdle /\ RawIdle /\ WriteIdle /\ AlignIdle
    /\ ChooseIdle /\ FactorIdle /\ RiskIdle /\ RollIdle /\ ExportIdle /\ JsonIdle /\ CacheIdle
    /\ SignIdle /\ CuratedIdle /\ TreeIdle

SpecFeat == InitFeat /\ [][FeatNext]_vars

InitAlign == AlignInit /\ GLCIIdle /\ RegimeIdle /\ RawIdle /\ WriteIdle /\ FeatIdle
    /\ ChooseIdle /\ FactorIdle /\ RiskIdle /\ RollIdle /\ ExportIdle /\ JsonIdle /\ CacheIdle
    /\ SignIdle /\ CuratedIdle /\ TreeIdle

SpecAlign == InitAlign /\ [][AlignNext]_vars

InitChoose == ChooseInit /\ GLCIIdle /\ RegimeIdle /\ RawIdle /\ WriteIdle /\ FeatIdle
    /\ AlignIdle /\ FactorIdle /\ RiskIdle /\ RollIdle /\ ExportIdle /\ JsonIdle /\ CacheIdle
    /\ SignIdle /\ CuratedIdle /\ TreeIdle

SpecChoose == InitChoose /\ [][ChooseNext]_vars

InitFactor == FactorInit /\ GLCIIdle /\ RegimeIdle /\ RawIdle /\ WriteIdle /\ FeatIdle
    /\ AlignIdle /\ ChooseIdle /\ RiskIdle /\ RollIdle /\ ExportIdle /\ JsonIdle /\ CacheIdle
    /\ SignIdle /\ CuratedIdle /\ TreeIdle

SpecFactor == InitFactor /\ [][FactorNext]_vars

InitRisk == RiskInit /\ GLCIIdle /\ RegimeIdle /\ RawIdle /\ WriteIdle /\ FeatIdle /\ AlignIdle
    /\ ChooseIdle /\ FactorIdle /\ RollIdle /\ ExportIdle /\ JsonIdle /\ CacheIdle /\ SignIdle
    /\ CuratedIdle /\ TreeIdle

SpecRisk == InitRisk /\ [][RiskNext]_vars

InitRoll == RollInit /\ GLCIIdle /\ RegimeIdle /\ RawIdle /\ WriteIdle /\ FeatIdle /\ AlignIdle
    /\ ChooseIdle /\ FactorIdle /\ RiskIdle /\ ExportIdle /\ JsonIdle /\ CacheIdle /\ SignIdle
    /\ CuratedIdle /\ TreeIdle

SpecRoll == InitRoll /\ [][RollNext]_vars

InitExport == ExportInit /\ GLCIIdle /\ RegimeIdle /\ RawIdle /\ WriteIdle /\ FeatIdle
    /\ AlignIdle /\ ChooseIdle /\ FactorIdle /\ RiskIdle /\ RollIdle /\ JsonIdle /\ CacheIdle
    /\ SignIdle /\ CuratedIdle /\ TreeIdle

SpecExport == InitExport /\ [][ExportNext]_vars

InitFreshness == FreshnessInit /\ GLCIIdle /\ RegimeIdle /\ RawIdle /\ WriteIdle /\ FeatIdle
    /\ AlignIdle /\ ChooseIdle /\ FactorIdle /\ RiskIdle /\ RollIdle /\ JsonIdle /\ CacheIdle
    /\ SignIdle /\ CuratedIdle /\ TreeIdle

SpecFreshness == InitFreshness /\ [][FreshnessNext]_vars

InitJson == JsonInit /\ GLCIIdle /\ RegimeIdle /\ RawIdle /\ WriteIdle /\ FeatIdle /\ AlignIdle
    /\ ChooseIdle /\ FactorIdle /\ RiskIdle /\ RollIdle /\ ExportIdle /\ CacheIdle /\ SignIdle
    /\ CuratedIdle /\ TreeIdle

SpecJson == InitJson /\ [][JsonNext]_vars

InitCache == CacheInit /\ GLCIIdle /\ RegimeIdle /\ RawIdle /\ WriteIdle /\ FeatIdle
    /\ AlignIdle /\ ChooseIdle /\ FactorIdle /\ RiskIdle /\ RollIdle /\ ExportIdle /\ JsonIdle
    /\ SignIdle /\ CuratedIdle /\ TreeIdle

SpecCache == InitCache /\ [][CacheNext]_vars

InitSign == SignInit /\ GLCIIdle /\ RegimeIdle /\ RawIdle /\ WriteIdle /\ FeatIdle /\ AlignIdle
    /\ ChooseIdle /\ FactorIdle /\ RiskIdle /\ RollIdle /\ ExportIdle /\ JsonIdle /\ CacheIdle
    /\ CuratedIdle /\ TreeIdle

SpecSign == InitSign /\ [][SignNext]_vars

InitCurated == CuratedInit /\ GLCIIdle /\ RegimeIdle /\ RawIdle /\ WriteIdle /\ FeatIdle
    /\ AlignIdle /\ ChooseIdle /\ FactorIdle /\ RiskIdle /\ RollIdle /\ ExportIdle /\ JsonIdle
    /\ CacheIdle /\ SignIdle /\ TreeIdle

SpecCurated == InitCurated /\ [][CuratedNext]_vars

InitTree == TreeInit /\ GLCIIdle /\ RegimeIdle /\ RawIdle /\ WriteIdle /\ FeatIdle /\ AlignIdle
    /\ ChooseIdle /\ FactorIdle /\ RiskIdle /\ RollIdle /\ ExportIdle /\ JsonIdle /\ CacheIdle
    /\ SignIdle /\ CuratedIdle

SpecTree == InitTree /\ [][TreeNext]_vars

====
